---------------------------- MODULE Spec2Model ----------------------------
(***************************************************************************)
(* Knowledge-graph loader of the corpus pipelines.                         *)
(*                                                                         *)
(* Two copies of the loader exist in the repository and both are modelled; *)
(* the variable `variant` says which one a behaviour runs:                 *)
(*   "Neo4jLoader"      corpus_core/loaders/neo4j_loader.py                *)
(*   "BaseGraphLoader"  scratch/dagster-congress/.../base_graph_loader.py  *)
(*                                                                         *)
(* Python values are modelled as follows.  A str is a sequence of          *)
(* one-character strings (so that joining, str() and hashing are computed  *)
(* character by character); a dict value of type Any is a tagged record    *)
(* [str |-> chars] or [int |-> n]; None is the record NoneV; a dict is a   *)
(* function from its keys.                                                 *)
(***************************************************************************)
EXTENDS Integers, Sequences, FiniteSets, TLC

VARIABLES
    variant,              \* which loader class was constructed
    embedding_service,    \* self.embedding_service is set (TRUE) or None
    valid_relationships,  \* self._valid_relationships
    nodes,                \* graph store: node key <<labels, id>> -> properties
    edges,                \* graph store: edge key <<from, type, to>> -> properties
    pc,                   \* position of the running top-level call
    frame,                \* locals of load_entity_with_relationships
    batch,                \* locals of the running batch loop
    ret,                  \* what the last finished top-level call gave its caller
    hist,                 \* store calls issued by the running top-level call
    faults,               \* failed external calls so far
    arg,                  \* the running (or last) top-level call and its argument
    genIn,                \* identity derivation, inputs
    genOut,               \* identity derivation, outputs
    graph,                \* graph store shared by two loaders: the nodes, one by one
    writers,              \* the two loaders writing to graph, each in load_entity
    ontology,             \* the Ontology registry: _nodes and _relationships
    calls,                \* the registrations made on ontology, and what each gave
    out,                  \* what each schema generator returned, run by run
    extractor,            \* the entity extractor constructed: its class and its types
    response,             \* the completion text the language model answered with
    extracted,            \* what extract_from_text gave its caller
    trace                 \* the top-level calls that returned to the application, in order

raceVars == <<graph, writers>>

schemaVars == <<ontology, calls, out>>

extractVars == <<extractor, response, extracted>>

vars == <<variant, embedding_service, valid_relationships, nodes, edges, pc,
          frame, batch, ret, hist, faults, arg, genIn, genOut, raceVars, schemaVars,
          extractVars, trace>>

loaderVars == <<variant, embedding_service, valid_relationships, nodes, edges,
                pc, frame, batch, ret, hist, faults, arg>>

-----------------------------------------------------------------------------
(* Python values *)

PStr(s) == [str |-> s]
PInt(n) == [int |-> n]
PBool(b) == [bool |-> b]
PList(xs) == [list |-> xs]
NoneV == [none |-> TRUE]

IsStr(v) == DOMAIN v = {"str"}
IsInt(v) == DOMAIN v = {"int"}

\* bool(v): the empty string, 0, False, None and the empty list and dict are falsy
Truthy(v) ==
    IF IsStr(v) THEN v.str # <<>>
    ELSE IF IsInt(v) THEN v.int # 0
    ELSE IF DOMAIN v = {"vec"} THEN v.vec # <<>>
    ELSE IF DOMAIN v = {"bool"} THEN v.bool
    ELSE IF DOMAIN v = {"list"} THEN v.list # <<>>
    ELSE IF DOMAIN v = {"dict"} THEN v.dict # <<>>
    ELSE FALSE

Digits == <<"0", "1", "2", "3", "4", "5", "6", "7", "8", "9">>

RECURSIVE Decimal(_)
Decimal(n) ==
    IF n < 10 THEN <<Digits[n + 1]>>
    ELSE Decimal(n \div 10) \o <<Digits[(n % 10) + 1]>>

\* str(v) for the values a property can hold
PyStr(v) ==
    IF IsStr(v) THEN v.str
    ELSE IF IsInt(v) THEN Decimal(v.int)
    ELSE <<"N", "o", "n", "e">>

\* sep.join(parts)
RECURSIVE Join(_, _)
Join(parts, sep) ==
    IF parts = <<>> THEN <<>>
    ELSE IF Len(parts) = 1 THEN parts[1]
    ELSE parts[1] \o sep \o Join(Tail(parts), sep)

\* dict.get(key) with the default None
Get(d, key) == IF key \in DOMAIN d THEN d[key] ELSE NoneV

\* {**a, **b}: the keys of b win
Merged(a, b) == [k \in DOMAIN a \cup DOMAIN b |-> IF k \in DOMAIN b THEN b[k] ELSE a[k]]

EmptyDict == [k \in {} |-> NoneV]

Last(s) == s[Len(s)]

Max(S) == CHOOSE x \in S : \A y \in S : x >= y

Min(S) == CHOOSE x \in S : \A y \in S : x <= y

-----------------------------------------------------------------------------
(* Text of the model's universe *)

Bill == <<"B", "i", "l", "l">>
Ghost == <<"G", "h", "o", "s", "t">>
Person == <<"P", "e", "r", "s", "o", "n">>
Organization == <<"O", "r", "g", "a", "n", "i", "z", "a", "t", "i", "o", "n">>
Member == <<"M", "e", "m", "b", "e", "r">>
Committee == <<"C", "o", "m", "m", "i", "t", "t", "e", "e">>

\* ord(c) of the characters that reach the hash
Ord ==
    ("B" :> 66) @@ ("G" :> 71) @@ ("N" :> 78) @@ (":" :> 58) @@
    ("0" :> 48) @@ ("1" :> 49) @@ ("2" :> 50) @@ ("3" :> 51) @@ ("4" :> 52) @@
    ("5" :> 53) @@ ("6" :> 54) @@ ("7" :> 55) @@ ("8" :> 56) @@ ("9" :> 57) @@
    ("M" :> 77) @@ ("m" :> 109) @@ ("r" :> 114) @@
    ("a" :> 97) @@ ("b" :> 98) @@ ("e" :> 101) @@ ("h" :> 104) @@
    ("i" :> 105) @@ ("l" :> 108) @@ ("n" :> 110) @@ ("o" :> 111) @@
    ("s" :> 115) @@ ("t" :> 116)

HexDigits == <<"0", "1", "2", "3", "4", "5", "6", "7",
               "8", "9", "a", "b", "c", "d", "e", "f">>

\* hashlib.sha256(text.encode()).hexdigest(): 64 hexadecimal digits.  SHA-256
\* itself is not computed; the digest is a stand-in that, like SHA-256 for all
\* practical purposes, maps different texts to different digests: the bytes of
\* the text in hexadecimal, padded with zeros.  Its first 16 digits still tell
\* apart any two texts of at most eight characters.
Sha256HexDigest(text) ==
    [i \in 1..64 |->
        IF i > 2 * Len(text) THEN "0"
        ELSE IF i % 2 = 1 THEN HexDigits[(Ord[text[(i + 1) \div 2]] \div 16) + 1]
        ELSE HexDigits[(Ord[text[i \div 2]] % 16) + 1]]

-----------------------------------------------------------------------------
(* Identity derivation: _generate_id *)

IdLen == 16

Neo4jLoader == "Neo4jLoader"
BaseGraphLoader == "BaseGraphLoader"
Variants == {Neo4jLoader, BaseGraphLoader}

\* the fields tried, in order, by _generate_id of each loader
PriorityFields(v) ==
    IF v = Neo4jLoader
    THEN <<"number", "bioguide_id", "system_code", "cik", "name", "title">>
    ELSE <<"number", "bioguide_id", "system_code", "name", "title">>

\* the same loop without its `break`: every field present is taken
AllPresent(fields, properties) ==
    SelectSeq(fields, LAMBDA f : f \in DOMAIN properties)

\* for prop in [...]: if prop in entity.properties: ...; break
RECURSIVE FirstPresent(_, _)
FirstPresent(fields, properties) ==
    IF fields = <<>> THEN <<>>
    ELSE IF Head(fields) \in DOMAIN properties THEN <<Head(fields)>>
    ELSE FirstPresent(Tail(fields), properties)

\* key_parts without the natural key: the entity type alone
KeyPartsTypeOnly(v, entity) == <<entity.entity_type>>

KeyParts(v, entity) ==
    LET found == FirstPresent(PriorityFields(v), entity.properties)
    IN  <<entity.entity_type>> \o
        [i \in 1..Len(found) |-> PyStr(entity.properties[found[i]])]

GenerateId(v, entity) ==
    SubSeq(Sha256HexDigest(Join(KeyParts(v, entity), <<":">>)), 1, IdLen)

-----------------------------------------------------------------------------
(* Entities and the ontology the loaders validate against *)

PFloat(tenths) == [float |-> tenths]
Vec(xs) == [vec |-> xs]

\* json.dumps(d): the serialized text of d, which is not d
JsonDumps(d) == [json |-> d]

Generic == <<"g", "e", "n", "e", "r", "i", "c">>
AMENDS == <<"A", "M", "E", "N", "D", "S">>
SPONSORS == <<"S", "P", "O", "N", "S", "O", "R", "S">>
BOGUS == <<"B", "O", "G", "U", "S">>

\* ExtractedEntity with the defaults of its fields
Entity(entity_type, properties, relationships) ==
    [entity_type |-> entity_type, properties |-> properties,
     relationships |-> relationships, confidence |-> PFloat(5),
     jsonld_schema |-> EmptyDict, domain |-> Generic]

\* schema.ontology.ONTOLOGY["nodes"] of the pipeline that BaseGraphLoader
\* imports: node type name -> additional_labels
OntologyNodes ==
    (Bill :> <<>>) @@ (Member :> <<Person>>) @@ (Committee :> <<Organization>>)

\* the names of schema.ontology.RELATIONSHIPS
OntologyRelationships ==
    {SPONSORS, <<"C", "O", "S", "P", "O", "N", "S", "O", "R", "S">>,
     <<"S", "E", "R", "V", "E", "S", "_", "O", "N">>,
     <<"R", "E", "F", "E", "R", "R", "E", "D", "_", "T", "O">>,
     <<"R", "E", "L", "A", "T", "E", "D", "_", "T", "O">>, AMENDS,
     <<"S", "U", "B", "C", "O", "M", "M", "I", "T", "T", "E", "E", "_", "O", "F">>}

\* get_node_type(name): the additional_labels of the type, or None
GetNodeType(name) ==
    IF name \in DOMAIN OntologyNodes THEN [additional_labels |-> OntologyNodes[name]]
    ELSE NoneV

ToSet(seq) == {seq[i] : i \in DOMAIN seq}

\* an entry of entity.relationships passes `if target_type and target_id and rel_type`
Complete(rel) ==
    /\ Truthy(Get(rel, "target_type"))
    /\ Truthy(Get(rel, "target_id"))
    /\ Truthy(Get(rel, "relationship_type"))

-----------------------------------------------------------------------------
(* The graph store: what one session.run does *)

Returned(v) == [kind |-> "return", v |-> v]
Raised == [kind |-> "raise"]

\* the nodes a pattern (n:L1:L2 {id: $id}) matches
MatchNodes(nd, labels, id) ==
    {k \in DOMAIN nd : labels \subseteq k[1] /\ k[2] = id}

\* MERGE ... ON CREATE SET n += $props: a matched node keeps what it has
MergeNodeOnCreate(nd, labels, id, props) ==
    LET key == <<labels, id>>
    IN  IF MatchNodes(nd, labels, id) = {}
        THEN [k \in DOMAIN nd \cup {key} |->
                IF k = key THEN Merged([x \in {"id"} |-> id], props) ELSE nd[k]]
        ELSE nd

\* MERGE (n:labels {id: $id}) SET n += $props: the nodes afterwards
MergeNode(nd, labels, id, props) ==
    LET hit == MatchNodes(nd, labels, id)
        key == <<labels, id>>
    IN  IF hit = {}
        THEN [k \in DOMAIN nd \cup {key} |->
                IF k = key THEN Merged([x \in {"id"} |-> id], props) ELSE nd[k]]
        ELSE [k \in DOMAIN nd |-> IF k \in hit THEN Merged(nd[k], props) ELSE nd[k]]

\* the same with MERGE (b:to_type {id}) for the second MATCH: the target
\* need not be there
MatchPairsTargetMerged(nd, from_type, from_id, to_type, to_id) ==
    MatchNodes(nd, {from_type}, from_id)
        \X (MatchNodes(nd, {to_type}, to_id) \cup {<<{to_type}, to_id>>})

\* MATCH (a:from_type {id}) MATCH (b:to_type {id}): the rows
MatchPairs(nd, from_type, from_id, to_type, to_id) ==
    MatchNodes(nd, {from_type}, from_id) \X MatchNodes(nd, {to_type}, to_id)

\* MERGE (a)-[r:rel]->(b) SET r += $props for every row: the edges afterwards
MergeEdges(ed, rows, rel, props) ==
    LET keys == {<<row[1], rel, row[2]>> : row \in rows}
    IN  [k \in DOMAIN ed \cup keys |->
            IF k \in keys
            THEN (IF k \in DOMAIN ed THEN Merged(ed[k], props) ELSE props)
            ELSE ed[k]]

-----------------------------------------------------------------------------
(* The loader's methods, as functions of the state they read and of the    *)
(* outcome of the external calls they make.  Each gives the value returned *)
(* (or that it raised), the store afterwards and the store calls issued.   *)

NodeCall(labels, id, props, ok) ==
    [q |-> "node", labels |-> labels, id |-> id, props |-> props, ok |-> ok]
RelCall(from_type, from_id, to_type, to_id, rel, ok) ==
    [q |-> "rel", from_type |-> from_type, from_id |-> from_id,
     to_type |-> to_type, to_id |-> to_id, rel |-> rel, ok |-> ok]

\* labels = [entity.entity_type] + additional labels
Labels(v, entity, additional_labels) ==
    IF v = Neo4jLoader
    THEN <<entity.entity_type>> \o additional_labels
    ELSE <<entity.entity_type>> \o GetNodeType(entity.entity_type).additional_labels

\* the same built as {"jsonld_schema": ..., "domain": ..., "confidence": ...,
\* **entity.properties}: the keys of the entity win
PropsEntityWins(entity, embedding, entity_id) ==
    LET base == Merged([jsonld_schema |-> JsonDumps(entity.jsonld_schema),
                        domain |-> PStr(entity.domain),
                        confidence |-> entity.confidence],
                       entity.properties)
        withEmb == IF Truthy(embedding)
                   THEN Merged(base, [embedding |-> embedding]) ELSE base
    IN  Merged(withEmb, [id |-> entity_id])

\* props = {**entity.properties, "jsonld_schema": ..., "domain": ...,
\*          "confidence": ...}; props["embedding"] if embedding; props["id"]
Props(entity, embedding, entity_id) ==
    LET base == Merged(entity.properties,
                       [jsonld_schema |-> JsonDumps(entity.jsonld_schema),
                        domain |-> PStr(entity.domain),
                        confidence |-> entity.confidence])
        withEmb == IF Truthy(embedding)
                   THEN Merged(base, [embedding |-> embedding]) ELSE base
    IN  Merged(withEmb, [id |-> entity_id])

\* entity.properties.get("id") or self._generate_id(entity)
EntityId(v, entity) ==
    LET given == Get(entity.properties, "id")
    IN  IF Truthy(given) THEN given ELSE PStr(GenerateId(v, entity))

\* load_entity.  emb is the outcome of get_embedding, ok that of session.run
load_entity(v, es, nd, entity, additional_labels, emb, ok) ==
    IF v = BaseGraphLoader /\ GetNodeType(entity.entity_type) = NoneV
    THEN [ret |-> Returned(NoneV), nodes |-> nd, log |-> <<>>, faults |-> 0]
    ELSE IF es /\ emb = Raised
    THEN [ret |-> Raised, nodes |-> nd, log |-> <<>>, faults |-> 1]
    ELSE
        LET embedding == IF es THEN emb.v ELSE NoneV
            labels == ToSet(Labels(v, entity, additional_labels))
            entity_id == EntityId(v, entity)
            props == Props(entity, embedding, entity_id)
            after == MergeNode(nd, labels, entity_id, props)
            record == CHOOSE k \in MatchNodes(after, labels, entity_id) : TRUE
        IN  IF ok
            THEN [ret |-> Returned(after[record].id), nodes |-> after,
                  log |-> <<NodeCall(labels, entity_id, props, TRUE)>>, faults |-> 0]
            ELSE [ret |-> Raised, nodes |-> nd,
                  log |-> <<NodeCall(labels, entity_id, props, FALSE)>>, faults |-> 1]

\* load_relationship without its guard
RelationshipNeverRejected(v, vr, relationship_type) == FALSE

\* the guard that opens load_relationship
RelationshipRejected(v, vr, relationship_type) ==
    IF v = Neo4jLoader
    THEN vr # {} /\ relationship_type \notin vr
    ELSE relationship_type \notin vr

\* load_relationship
load_relationship(v, vr, nd, ed, from_id, from_type, to_id, to_type, relationship_type, properties, ok) ==
    IF RelationshipRejected(v, vr, relationship_type)
    THEN [ret |-> Returned(PBool(FALSE)), edges |-> ed, log |-> <<>>, faults |-> 0]
    ELSE
        LET rows == MatchPairs(nd, from_type, from_id, to_type, to_id)
            call == RelCall(from_type, from_id, to_type, to_id, relationship_type, ok)
        IN  IF ~ok
            THEN [ret |-> Raised, edges |-> ed, log |-> <<call>>, faults |-> 1]
            ELSE [ret |-> Returned(PBool(rows # {})),
                  edges |-> MergeEdges(ed, rows, relationship_type, properties),
                  log |-> <<call>>, faults |-> 0]

\* the default of semantic_search's index_name, and the name that
\* BaseGraphLoader writes into its query
EntityEmbeddingVector ==
    <<"e", "n", "t", "i", "t", "y", "_", "e", "m", "b", "e", "d", "d", "i", "n", "g", "_", "v", "e", "c", "t", "o", "r">>

QueryCall(index_name, limit, embedding, type_filter, ok) ==
    [q |-> "vector", index_name |-> index_name, limit |-> limit,
     embedding |-> embedding, type_filter |-> type_filter, ok |-> ok]

\* the nodes db.index.vector.queryNodes can yield under WHERE node{type_filter}
Candidates(nd, entity_type) ==
    {k \in DOMAIN nd : /\ "embedding" \in DOMAIN nd[k]
                       /\ Truthy(entity_type) => entity_type.str \in k[1]}

\* semantic_search with the check of self.embedding_service left out
semantic_search_unchecked(v, es, nd, limit, entity_type, index_name, emb, ok, hits) ==
    IF emb = Raised
    THEN [ret |-> Raised, log |-> <<>>, faults |-> 1]
    ELSE LET call == QueryCall(IF v = Neo4jLoader THEN index_name ELSE EntityEmbeddingVector,
                               limit, emb.v,
                               IF Truthy(entity_type) THEN <<":">> \o entity_type.str ELSE <<>>,
                               ok)
         IN  IF ok THEN [ret |-> Returned([records |-> hits]), log |-> <<call>>, faults |-> 0]
             ELSE [ret |-> Raised, log |-> <<call>>, faults |-> 1]

\* semantic_search.  emb is the outcome of get_embedding, ok that of
\* session.run, hits the nodes the index yields
semantic_search(v, es, nd, limit, entity_type, index_name, emb, ok, hits) ==
    IF ~es
    THEN [ret |-> Returned([records |-> {}]), log |-> <<>>, faults |-> 0]
    ELSE IF emb = Raised
    THEN [ret |-> Raised, log |-> <<>>, faults |-> 1]
    ELSE LET call == QueryCall(IF v = Neo4jLoader THEN index_name ELSE EntityEmbeddingVector,
                               limit, emb.v,
                               IF Truthy(entity_type) THEN <<":">> \o entity_type.str ELSE <<>>,
                               ok)
         IN  IF ok THEN [ret |-> Returned([records |-> hits]), log |-> <<call>>, faults |-> 0]
             ELSE [ret |-> Raised, log |-> <<call>>, faults |-> 1]

-----------------------------------------------------------------------------
(* Bounds and the inputs drawn *)

MaxFaults == 1     \* external calls that fail in one behaviour
MaxBatch == 2      \* entities in one batch
MaxRels == 2       \* relationships of one entity

EntityTypes == {Bill, Ghost, Member}

IdValues == {PStr(<<>>), PStr(<<"a">>)}
NameValues == {PStr(<<"a">>), PStr(<<"b">>)}

\* property maps over the keys id and name, and two with the keys that
\* load_entity sets itself
PropertyMaps ==
    {EmptyDict} \cup {[id |-> i] : i \in IdValues} \cup {[name |-> n] : n \in NameValues}
    \cup {[id |-> i, name |-> n] : i \in IdValues, n \in NameValues}
    \cup {[domain |-> PStr(<<"x">>), confidence |-> PInt(9), jsonld_schema |-> PStr(<<"x">>)],
          [id |-> PStr(<<"a">>), domain |-> PStr(<<"x">>), confidence |-> PInt(9),
           jsonld_schema |-> PStr(<<"x">>)]}

\* entries of entity.relationships: accepted kind, unknown kind, no kind
RelationshipDicts ==
    {[target_type |-> PStr(Bill), target_id |-> PStr(<<"a">>), relationship_type |-> PStr(AMENDS)],
     [target_type |-> PStr(Bill), target_id |-> PStr(<<"a">>), relationship_type |-> PStr(BOGUS)],
     [target_type |-> PStr(Bill), target_id |-> PStr(<<"a">>)]}

SeqsUpTo(S, n) == UNION {[1..m -> S] : m \in 0..n}

PlainEntities == {Entity(t, p, <<>>) : t \in EntityTypes, p \in PropertyMaps}

LinkedEntities ==
    {Entity(t, p, r) : t \in EntityTypes,
                       p \in {[id |-> PStr(<<"a">>)], [name |-> PStr(<<"a">>)]},
                       r \in SeqsUpTo(RelationshipDicts, MaxRels)}

\* the entities a batch is made of: with and without id, of a known and of an
\* unknown type
BatchEntities ==
    {Entity(t, p, <<>>) : t \in EntityTypes, p \in {EmptyDict, [id |-> PStr(<<"a">>)]}}

\* the entities congress_graph is given: with no relationship, with one of an
\* accepted kind, with one of an unknown kind; one of an unknown type
GraphEntities ==
    {e \in LinkedEntities :
        /\ "id" \in DOMAIN e.properties
        /\ Len(e.relationships) <= 1
        /\ e.entity_type = Ghost => e.relationships = <<>>
        /\ \A i \in DOMAIN e.relationships : Complete(e.relationships[i])}

AdditionalLabelLists == {<<>>, <<Person>>}

\* the arguments of semantic_search: limit, entity_type (None by default) and
\* index_name (the default, or the name of a generated index)
SearchLimits == {1, 10}
SearchTypes == {NoneV, PStr(Bill)}
IndexNames == {EntityEmbeddingVector,
               <<"b", "i", "l", "l", "_", "e", "m", "b", "e", "d", "d", "i", "n", "g",
                 "_", "v", "e", "c", "t", "o", "r">>}

EmbeddingOutcomes == {Raised, Returned(Vec(<<>>)), Returned(Vec(<<1>>))}

\* the relationship registries a Neo4jLoader is constructed with
Registries == {{}, {AMENDS}}

NoFrame == [active |-> FALSE]
NoBatch == [op |-> "none"]
NoRet == [kind |-> "nothing"]

-----------------------------------------------------------------------------
(* The loader as a state machine: one step per external call *)

NoGen == <<>>

\* What the store holds when the loader is constructed: nothing, or the node
\* that an earlier run of the same loader wrote for SeedEntity.
SeedEntity == Entity(Bill, [id |-> PStr(<<"a">>), name |-> PStr(<<"a">>)], <<>>)

\* no second loader, and no ontology under construction
NoRace == graph = <<>> /\ writers = <<>>

NoSchema == ontology = [nodes |-> <<>>, relationships |-> <<>>] /\ calls = <<>> /\ out = <<>>

\* no extractor constructed
NoExtract == extractor = NoneV /\ response = <<>> /\ extracted = NoRet

\* no call has returned yet
NoTrace == trace = <<>>

SeedStores(v) ==
    {<<>>, load_entity(v, FALSE, <<>>, SeedEntity, <<>>, Returned(NoneV), TRUE).nodes}
NoArg == [op |-> "none"]

Init ==
    /\ variant \in Variants
    /\ embedding_service \in BOOLEAN
    /\ valid_relationships \in
           (IF variant = Neo4jLoader THEN Registries ELSE {OntologyRelationships})
    /\ nodes \in SeedStores(variant)
    /\ edges = <<>>
    /\ pc = "idle"
    /\ frame = NoFrame
    /\ batch = NoBatch
    /\ ret = NoRet
    /\ hist = <<>>
    /\ faults = 0
    /\ arg = NoArg
    /\ genIn = NoGen
    /\ genOut = NoGen
    /\ NoRace
    /\ NoSchema
    /\ NoExtract
    /\ NoTrace

EmbeddingDraws == IF embedding_service THEN EmbeddingOutcomes ELSE {Returned(NoneV)}
LabelDraws == IF variant = Neo4jLoader THEN AdditionalLabelLists ELSE {<<>>}

\* the application makes its call on the loader
Begin(op, argument) ==
    /\ pc = "idle"
    /\ arg' = [op |-> op, argument |-> argument]

\* load_entity called by the application
LoadEntity(entity, additional_labels, emb, ok) ==
    /\ Begin("load_entity", entity)
    /\ LET r == load_entity(variant, embedding_service, nodes, entity,
                            additional_labels, emb, ok)
       IN  /\ faults + r.faults <= MaxFaults
           /\ faults' = faults + r.faults
           /\ nodes' = r.nodes
           /\ ret' = r.ret
           /\ hist' = r.log
    /\ pc' = "done"
    /\ UNCHANGED <<variant, embedding_service, valid_relationships, edges,
                   frame, batch, genIn, genOut, raceVars, schemaVars, extractVars, trace>>

\* load_relationship called by the application
LoadRelationship(from_id, from_type, to_id, to_type, relationship_type, properties, ok) ==
    /\ Begin("load_relationship",
             [from_id |-> from_id, from_type |-> from_type, to_id |-> to_id,
              to_type |-> to_type, relationship_type |-> relationship_type])
    /\ LET r == load_relationship(variant, valid_relationships, nodes, edges,
                                  from_id, from_type, to_id, to_type,
                                  relationship_type, properties, ok)
       IN  /\ faults + r.faults <= MaxFaults
           /\ faults' = faults + r.faults
           /\ edges' = r.edges
           /\ ret' = r.ret
           /\ hist' = r.log
    /\ pc' = "done"
    /\ UNCHANGED <<variant, embedding_service, valid_relationships, nodes,
                   frame, batch, genIn, genOut, raceVars, schemaVars, extractVars, trace>>

\* semantic_search called by the application
SemanticSearch(limit, entity_type, index_name, emb, ok) ==
    /\ Begin("semantic_search", [limit |-> limit, entity_type |-> entity_type,
                                 index_name |-> index_name])
    /\ \E hits \in SUBSET Candidates(nodes, entity_type) :
          /\ Cardinality(hits) = Min({limit, Cardinality(Candidates(nodes, entity_type))})
          /\ LET r == semantic_search(variant, embedding_service, nodes, limit,
                                      entity_type, index_name, emb, ok, hits)
             IN  /\ faults + r.faults <= MaxFaults
                 /\ faults' = faults + r.faults
                 /\ ret' = r.ret
                 /\ hist' = r.log
    /\ pc' = "done"
    /\ UNCHANGED <<variant, embedding_service, valid_relationships, nodes, edges,
                   frame, batch, genIn, genOut, raceVars, schemaVars, extractVars, trace>>

\* load_entity_with_relationships has finished with `result`: control goes
\* back to the application, or to the loop of congress_graph, whose
\* try/except takes a raise and whose `if entity_id:` takes a None
Finish(result, entity) ==
    /\ frame' = NoFrame
    /\ IF batch.op = "congress_graph"
       THEN /\ pc' = "loop"
            /\ ret' = ret
            /\ batch' =
                 IF result.kind = "return" /\ Truthy(result.v)
                 THEN [batch EXCEPT !.i = @ + 1,
                                    !.loaded_ids = Append(@, result.v),
                                    !.relationship_count = @ + Len(entity.relationships)]
                 ELSE [batch EXCEPT !.i = @ + 1]
       ELSE /\ pc' = "done"
            /\ ret' = result
            /\ batch' = batch

\* the same without `if not entity_id: return None`
EnterUnchecked(entity, emb, ok) ==
    LET r == load_entity(variant, embedding_service, nodes, entity, <<>>, emb, ok)
    IN  /\ faults + r.faults <= MaxFaults
        /\ faults' = faults + r.faults
        /\ nodes' = r.nodes
        /\ hist' = (IF batch.op = "congress_graph" THEN hist ELSE <<>>) \o r.log
        /\ IF r.ret.kind = "return"
           THEN /\ pc' = "rels"
                /\ frame' = [active |-> TRUE, entity |-> entity,
                             entity_id |-> r.ret.v, i |-> 1]
                /\ UNCHANGED <<ret, batch>>
           ELSE Finish(Raised, entity)

\* entity_id = self.load_entity(entity); if not entity_id: return None
Enter(entity, emb, ok) ==
    LET r == load_entity(variant, embedding_service, nodes, entity, <<>>, emb, ok)
    IN  /\ faults + r.faults <= MaxFaults
        /\ faults' = faults + r.faults
        /\ nodes' = r.nodes
        /\ hist' = (IF batch.op = "congress_graph" THEN hist ELSE <<>>) \o r.log
        /\ IF r.ret.kind = "return" /\ Truthy(r.ret.v)
           THEN /\ pc' = "rels"
                /\ frame' = [active |-> TRUE, entity |-> entity,
                             entity_id |-> r.ret.v, i |-> 1]
                /\ UNCHANGED <<ret, batch>>
           ELSE Finish(IF r.ret.kind = "raise" THEN Raised ELSE Returned(NoneV), entity)

\* load_entity_with_relationships called by the application
LoadEntityWithRelationships(entity, emb, ok) ==
    /\ Begin("load_entity_with_relationships", entity)
    /\ Enter(entity, emb, ok)
    /\ UNCHANGED <<variant, embedding_service, valid_relationships, edges,
                   genIn, genOut, raceVars, schemaVars, extractVars, trace>>

\* one turn of `for rel in entity.relationships`
RelationshipStep(ok) ==
    /\ pc = "rels"
    /\ frame.i <= Len(frame.entity.relationships)
    /\ LET rel == frame.entity.relationships[frame.i]
           target_type == Get(rel, "target_type")
           target_id == Get(rel, "target_id")
           rel_type == Get(rel, "relationship_type")
       IN  IF Truthy(target_type) /\ Truthy(target_id) /\ Truthy(rel_type)
           THEN LET r == load_relationship(variant, valid_relationships, nodes, edges,
                                           frame.entity_id, frame.entity.entity_type,
                                           target_id, PyStr(target_type),
                                           PyStr(rel_type), EmptyDict, ok)
                IN  /\ faults + r.faults <= MaxFaults
                    /\ faults' = faults + r.faults
                    /\ edges' = r.edges
                    /\ hist' = hist \o r.log
                    /\ IF r.ret = Raised
                       THEN Finish(Raised, frame.entity)
                       ELSE /\ frame' = [frame EXCEPT !.i = @ + 1]
                            /\ UNCHANGED <<pc, ret, batch>>
           ELSE /\ frame' = [frame EXCEPT !.i = @ + 1]
                /\ UNCHANGED <<faults, edges, hist, pc, ret, batch>>
    /\ UNCHANGED <<variant, embedding_service, valid_relationships, nodes,
                   arg, genIn, genOut, raceVars, schemaVars, extractVars, trace>>

\* return entity_id
RelationshipsDone ==
    /\ pc = "rels"
    /\ frame.i > Len(frame.entity.relationships)
    /\ Finish(Returned(frame.entity_id), frame.entity)
    /\ UNCHANGED <<variant, embedding_service, valid_relationships, nodes, edges,
                   hist, faults, arg, genIn, genOut, raceVars, schemaVars, extractVars, trace>>

\* load_entities called by the application
LoadEntities(entities) ==
    /\ Begin("load_entities", entities)
    /\ pc' = "loop"
    /\ batch' = [op |-> "load_entities", entities |-> entities, i |-> 1, ids |-> <<>>]
    /\ hist' = <<>>
    /\ UNCHANGED <<variant, embedding_service, valid_relationships, nodes, edges,
                   frame, ret, faults, genIn, genOut, raceVars, schemaVars, extractVars, trace>>

\* one turn of `for entity in entities` of load_entities; a raise leaves the loop
LoadEntitiesStep(emb, ok) ==
    /\ pc = "loop"
    /\ batch.op = "load_entities"
    /\ batch.i <= Len(batch.entities)
    /\ LET r == load_entity(variant, embedding_service, nodes,
                            batch.entities[batch.i], <<>>, emb, ok)
       IN  /\ faults + r.faults <= MaxFaults
           /\ faults' = faults + r.faults
           /\ nodes' = r.nodes
           /\ hist' = hist \o r.log
           /\ IF r.ret = Raised
              THEN /\ pc' = "done"
                   /\ ret' = Raised
                   /\ batch' = NoBatch
              ELSE /\ pc' = pc
                   /\ ret' = ret
                   /\ batch' = [batch EXCEPT !.i = @ + 1,
                                             !.ids = IF Truthy(r.ret.v)
                                                     THEN Append(@, r.ret.v) ELSE @]
    /\ UNCHANGED <<variant, embedding_service, valid_relationships, edges,
                   frame, arg, genIn, genOut, raceVars, schemaVars, extractVars, trace>>

\* return ids
LoadEntitiesDone ==
    /\ pc = "loop"
    /\ batch.op = "load_entities"
    /\ batch.i > Len(batch.entities)
    /\ pc' = "done"
    /\ ret' = Returned(PList(batch.ids))
    /\ batch' = NoBatch
    /\ UNCHANGED <<variant, embedding_service, valid_relationships, nodes, edges,
                   frame, hist, faults, arg, genIn, genOut, raceVars, schemaVars, extractVars, trace>>

\* the congress_graph asset runs: it constructs a BaseGraphLoader with an
\* embedding service and loops over its input
CongressGraph(congress_entities) ==
    /\ variant = BaseGraphLoader
    /\ embedding_service
    /\ Begin("congress_graph", congress_entities)
    /\ pc' = "loop"
    /\ batch' = [op |-> "congress_graph", entities |-> congress_entities, i |-> 1,
                 loaded_ids |-> <<>>, relationship_count |-> 0]
    /\ hist' = <<>>
    /\ UNCHANGED <<variant, embedding_service, valid_relationships, nodes, edges,
                   frame, ret, faults, genIn, genOut, raceVars, schemaVars, extractVars, trace>>

\* one turn of `for entity in congress_entities`, up to the node upsert
CongressGraphStep(emb, ok) ==
    /\ pc = "loop"
    /\ batch.op = "congress_graph"
    /\ batch.i <= Len(batch.entities)
    /\ Enter(batch.entities[batch.i], emb, ok)
    /\ UNCHANGED <<variant, embedding_service, valid_relationships, edges,
                   arg, genIn, genOut, raceVars, schemaVars, extractVars, trace>>

\* return Output({...})
CongressGraphDone ==
    /\ pc = "loop"
    /\ batch.op = "congress_graph"
    /\ batch.i > Len(batch.entities)
    /\ pc' = "done"
    /\ ret' = Returned([loaded_count |-> Len(batch.loaded_ids),
                        relationship_count |-> batch.relationship_count,
                        loaded_ids |-> SubSeq(batch.loaded_ids, 1,
                                        IF Len(batch.loaded_ids) < 100
                                        THEN Len(batch.loaded_ids) ELSE 100)])
    /\ batch' = NoBatch
    /\ UNCHANGED <<variant, embedding_service, valid_relationships, nodes, edges,
                   frame, hist, faults, arg, genIn, genOut, raceVars, schemaVars, extractVars, trace>>

Next ==
    \/ \E e \in PlainEntities, al \in LabelDraws, emb \in EmbeddingDraws, ok \in BOOLEAN :
          LoadEntity(e, al, emb, ok)
    \/ \E to_id \in {PStr(<<"a">>), PStr(<<"b">>)}, rel \in {AMENDS, BOGUS},
          props \in {EmptyDict, [since |-> PInt(1)]}, ok \in BOOLEAN :
          LoadRelationship(PStr(<<"a">>), Bill, to_id, Bill, rel, props, ok)
    \/ \E limit \in SearchLimits, t \in SearchTypes, ix \in IndexNames,
          emb \in EmbeddingDraws, ok \in BOOLEAN :
          SemanticSearch(limit, t, ix, emb, ok)
    \/ \E e \in LinkedEntities, emb \in EmbeddingDraws, ok \in BOOLEAN :
          LoadEntityWithRelationships(e, emb, ok)
    \/ \E ok \in BOOLEAN : RelationshipStep(ok)
    \/ RelationshipsDone
    \/ \E es \in SeqsUpTo(BatchEntities, MaxBatch) : LoadEntities(es)
    \/ \E emb \in EmbeddingDraws, ok \in BOOLEAN : LoadEntitiesStep(emb, ok)
    \/ LoadEntitiesDone
    \/ \E es \in SeqsUpTo(GraphEntities, MaxBatch) : CongressGraph(es)
    \/ \E emb \in EmbeddingDraws, ok \in BOOLEAN : CongressGraphStep(emb, ok)
    \/ CongressGraphDone

Spec == Init /\ [][Next]_vars

-----------------------------------------------------------------------------
(* One loader called again and again: load_entity and load_relationship,   *)
(* each call returning to the application before the next is made          *)

MaxCalls == 3      \* calls made on one loader

NoteValues == {PStr(<<"a">>), PStr(<<"b">>)}

\* the entities loaded one after the other: with an id, or with nothing but a
\* note, which is no field of the priority list
SequenceEntities ==
    {Entity(Bill, p, <<>>) :
        p \in {[id |-> PStr(<<"b">>)]} \cup {[note |-> n] : n \in NoteValues}}
    \cup {Entity(Member, [id |-> PStr(<<"a">>)], <<>>)}

InitSequence ==
    /\ Init
    /\ ~embedding_service

\* the call returns (or raises) to the application, which may call again
Return ==
    /\ pc = "done"
    /\ Len(trace) + 1 < MaxCalls
    /\ trace' = Append(trace, [arg |-> arg, ret |-> ret])
    /\ pc' = "idle"
    /\ hist' = <<>>
    /\ UNCHANGED <<variant, embedding_service, valid_relationships, nodes, edges,
                   frame, batch, ret, faults, arg, genIn, genOut, raceVars,
                   schemaVars, extractVars>>

NextSequence ==
    \/ \E e \in SequenceEntities, al \in LabelDraws, ok \in BOOLEAN :
          LoadEntity(e, al, Returned(NoneV), ok)
    \/ \E to_id \in {PStr(<<"a">>), PStr(<<"b">>)}, to_type \in {Bill, Member},
          rel \in {AMENDS, BOGUS}, ok \in BOOLEAN :
          LoadRelationship(PStr(<<"a">>), Bill, to_id, to_type, rel, EmptyDict, ok)
    \/ Return

SpecSequence == InitSequence /\ [][NextSequence]_vars

-----------------------------------------------------------------------------
(* Identity derivation on its own: _generate_id applied to two entities *)

NumberValues == {PStr(<<"1">>), PInt(1), PStr(<<"a">>)}

\* the property maps of IdEntities: each key absent or with one of its values
IdPropertyMaps ==
    LET Absent == [absent |-> TRUE]
        Choices == [number : NumberValues \cup {Absent},
                    cik : {PStr(<<"a">>), Absent},
                    name : NameValues \cup {Absent},
                    note : {PStr(<<"a">>), Absent}]
    IN  {[k \in {x \in DOMAIN c : c[x] # Absent} |-> c[k]] : c \in Choices}

IdEntities == {Entity(t, p, <<>>) : t \in EntityTypes, p \in IdPropertyMaps}

InitId ==
    /\ variant \in Variants
    /\ embedding_service = FALSE
    /\ valid_relationships = {}
    /\ nodes = <<>>
    /\ edges = <<>>
    /\ pc = "idle"
    /\ frame = NoFrame
    /\ batch = NoBatch
    /\ ret = NoRet
    /\ hist = <<>>
    /\ faults = 0
    /\ arg = NoArg
    /\ genIn \in IdEntities \X IdEntities
    /\ genOut = NoGen
    /\ NoRace
    /\ NoSchema
    /\ NoExtract
    /\ NoTrace

\* self._generate_id(entity), for each of the two entities
Derive ==
    /\ genOut = NoGen
    /\ genOut' = <<GenerateId(variant, genIn[1]), GenerateId(variant, genIn[2])>>
    /\ UNCHANGED <<loaderVars, genIn, raceVars, schemaVars, extractVars, trace>>

NextId == Derive

SpecId == InitId /\ [][NextId]_vars

-----------------------------------------------------------------------------
(* Two loaders on one graph store.  Each runs load_entity once; the steps   *)
(* that interleave are the external calls: get_embedding and the one        *)
(* session.run, an auto-commit statement that the store applies atomically. *)
(* The store is a sequence of nodes, so that two nodes with the same labels *)
(* and id are two entries.                                                   *)

\* the nodes a pattern (n:L1:L2 {id: $id}) matches
MatchRows(g, labels, id) ==
    {i \in DOMAIN g : labels \subseteq g[i].labels /\ g[i].props.id = id}

\* CREATE (n:labels {id: $id}) SET n += $props: a node is added whatever is stored
CreateRows(g, labels, id, props) ==
    Append(g, [labels |-> labels, props |-> Merged([x \in {"id"} |-> id], props)])

\* MERGE (n:labels {id: $id}) SET n += $props, applied in one step
MergeRows(g, labels, id, props) ==
    IF MatchRows(g, labels, id) = {}
    THEN Append(g, [labels |-> labels, props |-> Merged([x \in {"id"} |-> id], props)])
    ELSE [i \in DOMAIN g |->
            IF i \in MatchRows(g, labels, id)
            THEN [g[i] EXCEPT !.props = Merged(@, props)] ELSE g[i]]

\* the nodes of a keyed store, one by one
Rows(nd) ==
    LET keys == DOMAIN nd
        order == CHOOSE f \in [1..Cardinality(keys) -> keys] :
                    \A i, j \in DOMAIN f : i # j => f[i] # f[j]
    IN  [i \in 1..Cardinality(keys) |-> [labels |-> order[i][1], props |-> nd[order[i]]]]

\* a loader that has been asked to load `entity`
Writer(entity, additional_labels) ==
    [entity |-> entity, additional_labels |-> additional_labels, at |-> "called",
     embedding |-> NoneV, call |-> NoArg, ret |-> NoRet]

InitRace ==
    /\ variant \in Variants
    /\ embedding_service \in BOOLEAN
    /\ valid_relationships = {}
    /\ nodes \in SeedStores(variant)
    /\ edges = <<>>
    /\ pc = "idle"
    /\ frame = NoFrame
    /\ batch = NoBatch
    /\ ret = NoRet
    /\ hist = <<>>
    /\ faults = 0
    /\ arg = NoArg
    /\ genIn = NoGen
    /\ genOut = NoGen
    /\ graph = Rows(nodes)
    /\ writers \in {<<Writer(e1, al1), Writer(e2, al2)>> :
                        e1 \in PlainEntities, e2 \in PlainEntities,
                        al1 \in LabelDraws, al2 \in LabelDraws}
    /\ NoSchema
    /\ NoExtract
    /\ NoTrace

\* load_entity of writer w up to its store call: the type check of
\* BaseGraphLoader, then get_embedding
RaceEmbed(w, emb) ==
    /\ writers # <<>>
    /\ writers[w].at = "called"
    /\ IF variant = BaseGraphLoader /\ GetNodeType(writers[w].entity.entity_type) = NoneV
       THEN /\ writers' = [writers EXCEPT ![w].at = "done", ![w].ret = Returned(NoneV)]
            /\ faults' = faults
       ELSE IF embedding_service /\ emb = Raised
       THEN /\ faults < MaxFaults
            /\ faults' = faults + 1
            /\ writers' = [writers EXCEPT ![w].at = "done", ![w].ret = Raised]
       ELSE /\ writers' = [writers EXCEPT ![w].at = "embedded",
                                          ![w].embedding =
                                              IF embedding_service THEN emb.v ELSE NoneV]
            /\ faults' = faults
    /\ UNCHANGED <<variant, embedding_service, valid_relationships, nodes, edges, pc,
                   frame, batch, ret, hist, arg, genIn, genOut, graph, schemaVars, extractVars, trace>>

\* the store call of writer w and its return
RaceMerge(w, ok) ==
    /\ writers # <<>>
    /\ writers[w].at = "embedded"
    /\ LET entity == writers[w].entity
           labels == ToSet(Labels(variant, entity, writers[w].additional_labels))
           entity_id == EntityId(variant, entity)
           props == Props(entity, writers[w].embedding, entity_id)
           after == MergeRows(graph, labels, entity_id, props)
           record == CHOOSE i \in MatchRows(after, labels, entity_id) : TRUE
       IN  IF ok
           THEN /\ graph' = after
                /\ faults' = faults
                /\ writers' = [writers EXCEPT
                                  ![w].at = "done",
                                  ![w].call = NodeCall(labels, entity_id, props, TRUE),
                                  ![w].ret = Returned(after[record].props.id)]
           ELSE /\ faults < MaxFaults
                /\ faults' = faults + 1
                /\ graph' = graph
                /\ writers' = [writers EXCEPT
                                  ![w].at = "done",
                                  ![w].call = NodeCall(labels, entity_id, props, FALSE),
                                  ![w].ret = Raised]
    /\ UNCHANGED <<variant, embedding_service, valid_relationships, nodes, edges, pc,
                   frame, batch, ret, hist, arg, genIn, genOut, schemaVars, extractVars, trace>>

NextRace ==
    \/ \E w \in {1, 2}, emb \in EmbeddingDraws : RaceEmbed(w, emb)
    \/ \E w \in {1, 2}, ok \in BOOLEAN : RaceMerge(w, ok)

SpecRace == InitRace /\ [][NextRace]_vars

-----------------------------------------------------------------------------
(* The Ontology registry: corpus_core/schema/ontology.py *)

\* A Python dict keeps its keys in insertion order: it is modelled as the
\* sequence of its items, each key once.
DictKeys(d) == [i \in DOMAIN d |-> d[i].key]

DictValues(d) == [i \in DOMAIN d |-> d[i].value]

\* d.get(key)
DictGet(d, key) ==
    IF \E i \in DOMAIN d : d[i].key = key
    THEN d[CHOOSE i \in DOMAIN d : d[i].key = key].value
    ELSE NoneV

\* d.setdefault(key, value): a key already present keeps its value
DictSetDefault(d, key, value) ==
    IF \E i \in DOMAIN d : d[i].key = key
    THEN d
    ELSE Append(d, [key |-> key, value |-> value])

\* d[key] = value: a key already present keeps its place and takes the value
DictSet(d, key, value) ==
    IF \E i \in DOMAIN d : d[i].key = key
    THEN [i \in DOMAIN d |-> IF d[i].key = key THEN [key |-> key, value |-> value] ELSE d[i]]
    ELSE Append(d, [key |-> key, value |-> value])

\* PropertyType, by value
STRING_T == "string"
INTEGER == "integer"
FLOAT == "float"
BOOLEAN_T == "boolean"
DATETIME == "datetime"
DATE == "date"
TEXT == "text"
VECTOR == "vector"
PropertyType == {STRING_T, INTEGER, FLOAT, BOOLEAN_T, DATETIME, DATE, TEXT, VECTOR}

\* PropertyDef(name, prop_type, required=..., indexed=..., unique=..., fulltext=...)
PropertyDef(name, prop_type, required, indexed, unique, fulltext) ==
    [name |-> name, prop_type |-> prop_type, required |-> required,
     indexed |-> indexed, unique |-> unique, fulltext |-> fulltext, description |-> ""]

\* NodeType(name, properties, description), the other fields at their defaults
NodeType(name, properties, description) ==
    [name |-> name, properties |-> properties, description |-> description,
     domain |-> Generic, schema_org_type |-> NoneV, superclass |-> NoneV,
     mcp_tools |-> <<>>, additional_labels |-> <<>>]

\* RelationshipType(name, from_node, to_node, properties)
RelationshipType(name, from_node, to_node, properties) ==
    [name |-> name, from_node |-> from_node, to_node |-> to_node,
     properties |-> properties, description |-> ""]

\* Ontology(domain): version "1.0.0", nothing registered
Ontology(domain) ==
    [domain |-> domain, version |-> "1.0.0", description |-> "",
     nodes |-> <<>>, relationships |-> <<>>]

\* Ontology.register_node_type / register_relationship_type: the registry afterwards
register_node_type(o, node_type) ==
    [o EXCEPT !.nodes = DictSet(@, node_type.name, node_type)]

register_relationship_type(o, rel_type) ==
    [o EXCEPT !.relationships = DictSet(@, rel_type.name, rel_type)]

\* Ontology.get_node_type / get_all_node_types / get_all_relationship_types
get_node_type(o, name) == DictGet(o.nodes, name)

get_all_node_types(o) == DictValues(o.nodes)

get_all_relationship_types(o) == DictValues(o.relationships)

MaxRegs == 4       \* registrations made on one ontology

IdName == <<"i", "d">>
TitleName == <<"t", "i", "t", "l", "e">>

\* the definitions registered: two names, two definitions of each
NodeTypeDefs ==
    {NodeType(n, ps, d) :
        n \in {Bill, Member}, d \in {"first"},
        ps \in {<<PropertyDef(IdName, STRING_T, TRUE, FALSE, TRUE, FALSE)>>,
                <<PropertyDef(TitleName, TEXT, FALSE, FALSE, FALSE, TRUE)>>}}

RelationshipTypeDefs ==
    {RelationshipType(n, Member, t, <<>>) : n \in {SPONSORS, AMENDS}, t \in {Bill, Ghost}}

\* the loader is not running
LoaderIdle ==
    /\ variant = Neo4jLoader
    /\ embedding_service = FALSE
    /\ valid_relationships = {}
    /\ nodes = <<>>
    /\ edges = <<>>
    /\ pc = "idle"
    /\ frame = NoFrame
    /\ batch = NoBatch
    /\ ret = NoRet
    /\ hist = <<>>
    /\ faults = 0
    /\ arg = NoArg
    /\ genIn = NoGen
    /\ genOut = NoGen
    /\ NoRace

InitRegistry ==
    /\ LoaderIdle
    /\ NoExtract
    /\ NoTrace
    /\ ontology = Ontology(Generic)
    /\ calls = <<>>
    /\ out = <<>>

\* ontology.register_node_type(node_type), which returns None
RegisterNodeType(node_type) ==
    /\ Len(calls) < MaxRegs
    /\ ontology' = register_node_type(ontology, node_type)
    /\ calls' = Append(calls, [op |-> "register_node_type", name |-> node_type.name,
                               given |-> node_type, ret |-> Returned(NoneV)])
    /\ UNCHANGED <<loaderVars, genIn, genOut, raceVars, out, extractVars, trace>>

\* ontology.register_relationship_type(rel_type), which returns None
RegisterRelationshipType(rel_type) ==
    /\ Len(calls) < MaxRegs
    /\ ontology' = register_relationship_type(ontology, rel_type)
    /\ calls' = Append(calls, [op |-> "register_relationship_type", name |-> rel_type.name,
                               given |-> rel_type, ret |-> Returned(NoneV)])
    /\ UNCHANGED <<loaderVars, genIn, genOut, raceVars, out, extractVars, trace>>

NextRegistry ==
    \/ \E node_type \in NodeTypeDefs : RegisterNodeType(node_type)
    \/ \E rel_type \in RelationshipTypeDefs : RegisterRelationshipType(rel_type)

SpecRegistry == InitRegistry /\ [][NextRegistry]_vars

-----------------------------------------------------------------------------
(* The schema generators.  A generated text is modelled line by line, and a *)
(* line by the parts that vary in it; "\n".join of the lines is the text.   *)

UpperCase == <<"A", "B", "C", "D", "E", "F", "G", "H", "I", "J", "K", "L", "M",
               "N", "O", "P", "Q", "R", "S", "T", "U", "V", "W", "X", "Y", "Z">>
LowerCase == <<"a", "b", "c", "d", "e", "f", "g", "h", "i", "j", "k", "l", "m",
               "n", "o", "p", "q", "r", "s", "t", "u", "v", "w", "x", "y", "z">>

\* str.lower()
Lower(text) ==
    [i \in DOMAIN text |->
        IF \E k \in DOMAIN UpperCase : UpperCase[k] = text[i]
        THEN LowerCase[CHOOSE k \in DOMAIN UpperCase : UpperCase[k] = text[i]]
        ELSE text[i]]

\* the lists of a list of lists, one after the other
RECURSIVE Concat(_)
Concat(lists) ==
    IF lists = <<>> THEN <<>> ELSE Head(lists) \o Concat(Tail(lists))

\* the suffixes of the statement names
Unique == <<"u", "n", "i", "q", "u", "e">>
Exists == <<"e", "x", "i", "s", "t", "s">>
Idx == <<"i", "d", "x">>
Fulltext == <<"f", "u", "l", "l", "t", "e", "x", "t">>
VectorSuffix == <<"v", "e", "c", "t", "o", "r">>

VectorDimensions == 384

\* a fixed line of the output
Line(text) == [verb |-> "line", text |-> text]

\* f"// {node_type.name} constraints" and f"// {node_type.name} indexes"
Comment(type_name, section) == [verb |-> "comment", type |-> type_name, section |-> section]

\* f"{type_name.lower()}_{prop_name}_{kind}"
StatementName(type_name, prop_name, kind) ==
    Lower(type_name) \o <<"_">> \o prop_name \o <<"_">> \o kind

\* one CREATE statement: f"{verb} {name} IF NOT EXISTS FOR {pattern} {clause}",
\* where the pattern is (n:Type) or ()-[r:Type]-()
Statement(verb, kind, pattern, type_name, prop_name) ==
    [verb |-> verb, kind |-> kind, name |-> StatementName(type_name, prop_name, kind),
     pattern |-> pattern, type |-> type_name, prop |-> prop_name,
     dimensions |-> IF kind = VectorSuffix THEN VectorDimensions ELSE 0,
     similarity |-> IF kind = VectorSuffix THEN "cosine" ELSE ""]

\* the same with `if` for `elif`: a unique and required property gets both
ConstraintForBoth(node_type, prop) ==
    (IF prop.unique
     THEN <<Statement("CREATE CONSTRAINT", Unique, "node", node_type.name, prop.name)>>
     ELSE <<>>)
    \o (IF prop.required
        THEN <<Statement("CREATE CONSTRAINT", Exists, "node", node_type.name, prop.name)>>
        ELSE <<>>)

\* the constraint statements of one property: lines 30-41
ConstraintFor(node_type, prop) ==
    IF prop.unique
    THEN <<Statement("CREATE CONSTRAINT", Unique, "node", node_type.name, prop.name)>>
    ELSE IF prop.required /\ ~prop.unique
    THEN <<Statement("CREATE CONSTRAINT", Exists, "node", node_type.name, prop.name)>>
    ELSE <<>>

\* the same without `and not prop.unique`
IndexForIndexed(node_type, prop) ==
    IF prop.indexed
    THEN <<Statement("CREATE INDEX", Idx, "node", node_type.name, prop.name)>>
    ELSE IF prop.fulltext
    THEN <<Statement("CREATE FULLTEXT INDEX", Fulltext, "node", node_type.name, prop.name)>>
    ELSE IF prop.prop_type = VECTOR
    THEN <<Statement("CREATE VECTOR INDEX", VectorSuffix, "node", node_type.name, prop.name)>>
    ELSE <<>>

\* the same with `if` for each `elif`
IndexForEach(node_type, prop) ==
    (IF prop.indexed /\ ~prop.unique
     THEN <<Statement("CREATE INDEX", Idx, "node", node_type.name, prop.name)>>
     ELSE <<>>)
    \o (IF prop.fulltext
        THEN <<Statement("CREATE FULLTEXT INDEX", Fulltext, "node", node_type.name, prop.name)>>
        ELSE <<>>)
    \o (IF prop.prop_type = VECTOR
        THEN <<Statement("CREATE VECTOR INDEX", VectorSuffix, "node", node_type.name, prop.name)>>
        ELSE <<>>)

\* the index statements of one property: lines 57-75
IndexFor(node_type, prop) ==
    IF prop.indexed /\ ~prop.unique
    THEN <<Statement("CREATE INDEX", Idx, "node", node_type.name, prop.name)>>
    ELSE IF prop.fulltext
    THEN <<Statement("CREATE FULLTEXT INDEX", Fulltext, "node", node_type.name, prop.name)>>
    ELSE IF prop.prop_type = VECTOR
    THEN <<Statement("CREATE VECTOR INDEX", VectorSuffix, "node", node_type.name, prop.name)>>
    ELSE <<>>

\* the index statements of one relationship property: lines 89-93
RelationshipIndexFor(rel_type, prop) ==
    IF prop.indexed
    THEN <<Statement("CREATE INDEX", Idx, "relationship", rel_type.name, prop.name)>>
    ELSE <<>>

Banner(title) ==
    <<Line("// ===="), Line(title), Line("// ===="), Line("")>>

\* generate_neo4j_schema(ontology): the lines of the text returned
generate_neo4j_schema(o) ==
    LET types == get_all_node_types(o)
        rels == get_all_relationship_types(o)
    IN  <<Line("// Auto-generated Neo4j schema from ontology"),
          Line("// DO NOT EDIT - regenerate with schema generator"),
          [verb |-> "header", domain |-> o.domain, version |-> o.version],
          Line("")>>
        \o Banner("// Constraints")
        \o Concat([t \in DOMAIN types |->
              <<Comment(types[t].name, "constraints")>>
              \o Concat([k \in DOMAIN types[t].properties |->
                    ConstraintFor(types[t], types[t].properties[k])])
              \o <<Line("")>>])
        \o Banner("// Indexes")
        \o Concat([t \in DOMAIN types |->
              <<Comment(types[t].name, "indexes")>>
              \o Concat([k \in DOMAIN types[t].properties |->
                    IndexFor(types[t], types[t].properties[k])])
              \o <<Line("")>>])
        \o Banner("// Relationship Indexes")
        \o Concat([r \in DOMAIN rels |->
              Concat([k \in DOMAIN rels[r].properties |->
                    RelationshipIndexFor(rels[r], rels[r].properties[k])])])

\* _proto_type with mapping[prop_type] for mapping.get(prop_type, "string")
_proto_type_strict(prop_type) ==
    LET mapping == (STRING_T :> "string") @@ (INTEGER :> "int64") @@ (FLOAT :> "double")
                   @@ (BOOLEAN_T :> "bool") @@ (DATETIME :> "string") @@ (DATE :> "string")
                   @@ (TEXT :> "string") @@ (VECTOR :> "repeated float")
    IN  IF prop_type \in DOMAIN mapping THEN Returned(mapping[prop_type]) ELSE Raised

\* _proto_type(prop_type): mapping.get(prop_type, "string")
_proto_type(prop_type) ==
    LET mapping == (STRING_T :> "string") @@ (INTEGER :> "int64") @@ (FLOAT :> "double")
                   @@ (BOOLEAN_T :> "bool") @@ (DATETIME :> "string") @@ (DATE :> "string")
                   @@ (TEXT :> "string") @@ (VECTOR :> "repeated float")
    IN  IF prop_type \in DOMAIN mapping THEN Returned(mapping[prop_type])
        ELSE Returned("string")

\* the field loop without `field_num += 1`
RECURSIVE FieldLinesNoIncrement(_, _)
FieldLinesNoIncrement(properties, field_num) ==
    IF properties = <<>> THEN <<>>
    ELSE <<[verb |-> "field", type |-> _proto_type(Head(properties).prop_type).v,
            name |-> Head(properties).name, number |-> field_num]>>
         \o FieldLinesNoIncrement(Tail(properties), field_num)

\* for prop in node_type.properties: the field line, then field_num += 1
RECURSIVE FieldLines(_, _)
FieldLines(properties, field_num) ==
    IF properties = <<>> THEN <<>>
    ELSE <<[verb |-> "field", type |-> _proto_type(Head(properties).prop_type).v,
            name |-> Head(properties).name, number |-> field_num]>>
         \o FieldLines(Tail(properties), field_num + 1)

\* the fixed lines before the per-type messages: the header with the
\* ontology version, the service and the common messages
Prelude(o) ==
    <<Line("// Auto-generated gRPC proto from ontology.py"),
      [verb |-> "header", version |-> o.version],
      Line("service KnowledgeGraph and the common messages"),
      Line("message Entity {...}"), Line("")>>

\* generate_grpc_proto(), reading the registry o: the lines returned, or the
\* exception of a call it makes
generate_grpc_proto(o) ==
    LET types == get_all_node_types(o)
    IN  IF \E t \in DOMAIN types : \E k \in DOMAIN types[t].properties :
              _proto_type(types[t].properties[k].prop_type) = Raised
        THEN Raised
        ELSE Returned(
               Prelude(o)
               \o Concat([t \in DOMAIN types |->
                     <<[verb |-> "message", name |-> types[t].name]>>
                     \o FieldLines(types[t].properties, 1)
                     \o <<Line("}"), Line("")>>]))

\* _jsonld_type(prop_type): mapping.get(prop_type, "xsd:string")
_jsonld_type(prop_type) ==
    LET mapping == (STRING_T :> "xsd:string") @@ (INTEGER :> "xsd:integer")
                   @@ (FLOAT :> "xsd:decimal") @@ (BOOLEAN_T :> "xsd:boolean")
                   @@ (DATETIME :> "xsd:dateTime") @@ (DATE :> "xsd:date")
                   @@ (TEXT :> "xsd:string") @@ (VECTOR :> "schema:ItemList")
    IN  IF prop_type \in DOMAIN mapping THEN Returned(mapping[prop_type])
        ELSE Returned("xsd:string")

EmbeddingName == <<"e", "m", "b", "e", "d", "d", "i", "n", "g">>
CreatedAtName == <<"c", "r", "e", "a", "t", "e", "d", "_", "a", "t">>
UpdatedAtName == <<"u", "p", "d", "a", "t", "e", "d", "_", "a", "t">>
SourceUrlName == <<"s", "o", "u", "r", "c", "e", "_", "u", "r", "l">>

\* the names line 61 leaves out of kg:properties
JsonldExcluded == {IdName, EmbeddingName, CreatedAtName, UpdatedAtName}

\* the property loop without its `if prop.name not in [...]`
RECURSIVE JsonldPropertiesUnfiltered(_)
JsonldPropertiesUnfiltered(properties) ==
    IF properties = <<>> THEN <<>>
    ELSE LET prop == Last(properties)
             before == JsonldPropertiesUnfiltered(SubSeq(properties, 1, Len(properties) - 1))
         IN  DictSet(before, prop.name,
                     [type |-> _jsonld_type(prop.prop_type).v, required |-> prop.required,
                      indexed |-> prop.indexed, description |-> prop.description])

\* entity_schema["kg:properties"] after the loop over node_type.properties
RECURSIVE JsonldProperties(_)
JsonldProperties(properties) ==
    IF properties = <<>> THEN <<>>
    ELSE LET prop == Last(properties)
             before == JsonldProperties(SubSeq(properties, 1, Len(properties) - 1))
         IN  IF prop.name \notin JsonldExcluded
             THEN DictSet(before, prop.name,
                          [type |-> _jsonld_type(prop.prop_type).v, required |-> prop.required,
                           indexed |-> prop.indexed, description |-> prop.description])
             ELSE before

Thing == <<"T", "h", "i", "n", "g">>
Kg == <<"k", "g", ":">>

\* the @graph entry of one node type
EntitySchema(node_type) ==
    [type |-> IF Truthy(node_type.schema_org_type)
              THEN node_type.schema_org_type ELSE PStr(Thing),
     id |-> Kg \o node_type.name,
     domain |-> node_type.domain,
     description |-> node_type.description,
     properties |-> JsonldProperties(node_type.properties),
     tools |-> [t \in DOMAIN node_type.mcp_tools |->
                  [name |-> node_type.mcp_tools[t].name,
                   description |-> node_type.mcp_tools[t].description,
                   cypher |-> node_type.mcp_tools[t].cypher_template,
                   parameters |->
                      [k \in DOMAIN node_type.mcp_tools[t].parameters |->
                          [key |-> node_type.mcp_tools[t].parameters[k].key,
                           value |-> [type |-> <<"x", "s", "d", ":">>
                                       \o node_type.mcp_tools[t].parameters[k].value]]]]]]

\* generate_jsonld_context(ontology): the document returned, or the exception
\* of a call it makes
generate_jsonld_context(o) ==
    LET types == get_all_node_types(o)
    IN  IF \E t \in DOMAIN types : \E k \in DOMAIN types[t].properties :
              _jsonld_type(types[t].properties[k].prop_type) = Raised
        THEN Raised
        ELSE Returned([context |-> [vocab |-> "https://schema.org/", domain |-> o.domain],
                       graph |-> [t \in DOMAIN types |-> EntitySchema(types[t])]])

-----------------------------------------------------------------------------
(* The generators applied to an ontology built by registration *)

MaxRuns == 2       \* runs of one generator on one ontology

\* a prop_type that is no member of PropertyType
OtherType == "geo"

\* COMMON_PROPS
COMMON_PROPS ==
    <<PropertyDef(IdName, STRING_T, TRUE, FALSE, TRUE, FALSE),
      PropertyDef(EmbeddingName, VECTOR, FALSE, FALSE, FALSE, FALSE),
      PropertyDef(CreatedAtName, DATETIME, FALSE, FALSE, FALSE, FALSE),
      PropertyDef(UpdatedAtName, DATETIME, FALSE, FALSE, FALSE, FALSE),
      PropertyDef(SourceUrlName, STRING_T, FALSE, FALSE, FALSE, FALSE)>>

\* the property under study: every combination of the four flags on a string
\* and on a vector, and every type, known or not, with no flag
Probes ==
    {PropertyDef(TitleName, t, r, i, u, f) :
        t \in {STRING_T, VECTOR}, r \in BOOLEAN, i \in BOOLEAN, u \in BOOLEAN, f \in BOOLEAN}
    \cup {PropertyDef(TitleName, t, FALSE, FALSE, FALSE, FALSE) :
            t \in PropertyType \cup {OtherType}}

\* the property lists of a node type: names distinct within a list
PropertyLists ==
    {<<>>} \cup {<<p>> : p \in Probes} \cup {COMMON_PROPS \o <<p>> : p \in Probes}
    \cup {<<p, COMMON_PROPS[5]>> : p \in Probes}

\* MCPTool(name, description, cypher_template, parameters)
MCPTool(name, description, cypher_template, parameters) ==
    [name |-> name, description |-> description,
     cypher_template |-> cypher_template, parameters |-> parameters]

\* a second node type next to the one under study: with no property, or with
\* the common block, a schema.org mapping and a query tool
Companions(name) ==
    {NodeType(name, <<>>, ""),
     [NodeType(name, COMMON_PROPS, "") EXCEPT
        !.schema_org_type = PStr(Person),
        !.mcp_tools = <<MCPTool("find", "", "MATCH (n) RETURN n",
                                <<[key |-> "limit", value |-> <<"i", "n", "t", "e", "g", "e", "r">>]>>)>>]}

DateName == <<"d", "a", "t", "e">>
RoleName == <<"r", "o", "l", "e">>

\* the node types registered, in the order of registration; the last two
\* lists hold names that differ by case only, and the name of a relationship type
NodeTypeLists ==
    {<<>>}
    \cup {<<NodeType(n, ps, "")>> : n \in {Bill, Member}, ps \in PropertyLists}
    \cup UNION {{<<NodeType(n, ps, ""), c>>, <<c, NodeType(n, ps, "")>>} :
                    n \in {Bill}, ps \in PropertyLists, c \in Companions(Member)}
    \cup {<<NodeType(Bill, COMMON_PROPS, ""), NodeType(Lower(Bill), COMMON_PROPS, "")>>,
          <<NodeType(SPONSORS, <<PropertyDef(DateName, DATE, FALSE, TRUE, FALSE, FALSE)>>, "")>>}

\* the relationship types registered, in the order of registration; Ghost is
\* never a registered node type
RelationshipTypeLists ==
    {<<>>,
     <<RelationshipType(SPONSORS, Member, Ghost, <<>>)>>,
     <<RelationshipType(SPONSORS, Member, Bill,
          <<PropertyDef(DateName, DATE, FALSE, TRUE, FALSE, FALSE),
            PropertyDef(RoleName, STRING_T, TRUE, FALSE, TRUE, TRUE)>>),
       RelationshipType(AMENDS, Bill, Ghost,
          <<PropertyDef(DateName, DATE, FALSE, TRUE, FALSE, FALSE)>>)>>}

\* the registry after registering the node types, then the relationship types
RECURSIVE RegisterAll(_, _, _)
RegisterAll(o, node_types, rel_types) ==
    IF node_types # <<>>
    THEN RegisterAll(register_node_type(o, Head(node_types)), Tail(node_types), rel_types)
    ELSE IF rel_types # <<>>
    THEN RegisterAll(register_relationship_type(o, Head(rel_types)), node_types, Tail(rel_types))
    ELSE o

NoRuns == [neo4j |-> <<>>, proto |-> <<>>, jsonld |-> <<>>]

InitSchema ==
    /\ LoaderIdle
    /\ NoExtract
    /\ NoTrace
    /\ ontology \in {RegisterAll(Ontology(Generic), nts, rts) :
                        nts \in NodeTypeLists, rts \in RelationshipTypeLists}
    /\ calls = <<>>
    /\ out = NoRuns

\* a run of generate_neo4j_schema whose text also says when it was made
GenerateNeo4jSchemaTimestamped ==
    /\ Len(out.neo4j) < MaxRuns
    /\ out' = [out EXCEPT !.neo4j =
                 Append(@, Returned(Append(generate_neo4j_schema(ontology),
                                           [verb |-> "generated", at |-> Len(out.neo4j)])))]
    /\ UNCHANGED <<loaderVars, genIn, genOut, raceVars, ontology, calls, extractVars, trace>>

\* generate_neo4j_schema(ontology) is called
GenerateNeo4jSchema ==
    /\ Len(out.neo4j) < MaxRuns
    /\ out' = [out EXCEPT !.neo4j = Append(@, Returned(generate_neo4j_schema(ontology)))]
    /\ UNCHANGED <<loaderVars, genIn, genOut, raceVars, ontology, calls, extractVars, trace>>

\* generate_grpc_proto() is called
GenerateGrpcProto ==
    /\ Len(out.proto) < MaxRuns
    /\ out' = [out EXCEPT !.proto = Append(@, generate_grpc_proto(ontology))]
    /\ UNCHANGED <<loaderVars, genIn, genOut, raceVars, ontology, calls, extractVars, trace>>

\* generate_jsonld_context(ontology) is called
GenerateJsonldContext ==
    /\ Len(out.jsonld) < MaxRuns
    /\ out' = [out EXCEPT !.jsonld = Append(@, generate_jsonld_context(ontology))]
    /\ UNCHANGED <<loaderVars, genIn, genOut, raceVars, ontology, calls, extractVars, trace>>

NextSchema ==
    \/ GenerateNeo4jSchema
    \/ GenerateGrpcProto
    \/ GenerateJsonldContext

SpecSchema == InitSchema /\ [][NextSchema]_vars

-----------------------------------------------------------------------------
(* The entity extractor.  Two copies exist: the one of corpus_core is given  *)
(* entity type definitions as dicts, the one of scratch/dagster-congress the *)
(* NodeTypes of the ontology.  extract_from_text is modelled from the point  *)
(* where the completion service has answered.                                *)

PDict(items) == [dict |-> items]

IsDict(v) == DOMAIN v = {"dict"}
IsList(v) == DOMAIN v = {"list"}

\* text without its leading blanks
RECURSIVE Skip(_)
Skip(s) == IF s # <<>> /\ s[1] = " " THEN Skip(Tail(s)) ELSE s

Drop(s, n) == SubSeq(s, n + 1, Len(s))

StartsWith(s, word) == Len(s) >= Len(word) /\ SubSeq(s, 1, Len(word)) = word

\* the decoder found no value / found the value v and left `rest`
Failed == [ok |-> FALSE]
Parsed(v, rest) == [ok |-> TRUE, v |-> v, rest |-> rest]

\* a JSON string that starts at s[1]: no escape sequences
ParseString(s) ==
    LET close == {j \in 2..Len(s) : s[j] = "\""}
    IN  IF close = {} \/ \E j \in 2..(Min(close \cup {Len(s)})) : s[j] = "\\"
        THEN Failed
        ELSE Parsed(PStr(SubSeq(s, 2, Min(close) - 1)), Drop(s, Min(close)))

\* int(digits)
RECURSIVE IntOf(_)
IntOf(digits) ==
    IF digits = <<>> THEN 0
    ELSE 10 * IntOf(SubSeq(digits, 1, Len(digits) - 1))
         + (CHOOSE d \in 0..9 : Digits[d + 1] = Last(digits))

IsDigit(c) == \E d \in DOMAIN Digits : Digits[d] = c

\* a JSON number that starts at s[1]: an integer, or a decimal with one
\* fractional digit (kept in tenths); no sign, no exponent
ParseNumber(s) ==
    LET run == Max({0} \cup {k \in 1..Len(s) : \A j \in 1..k : IsDigit(s[j])})
        whole == IF s[1] = "0" THEN 1 ELSE run
    IN  IF whole = 0 THEN Failed
        ELSE IF Len(s) >= whole + 2 /\ s[whole + 1] = "." /\ IsDigit(s[whole + 2])
        THEN Parsed(PFloat(10 * IntOf(SubSeq(s, 1, whole)) + IntOf(<<s[whole + 2]>>)),
                    Drop(s, whole + 2))
        ELSE Parsed(PInt(IntOf(SubSeq(s, 1, whole))), Drop(s, whole))

RECURSIVE ParseValue(_)
RECURSIVE ParseItems(_, _)
RECURSIVE ParseMembers(_, _)

\* the JSON value at the start of text
ParseValue(text) ==
    LET s == Skip(text)
    IN  IF s = <<>> THEN Failed
        ELSE IF StartsWith(s, <<"n", "u", "l", "l">>) THEN Parsed(NoneV, Drop(s, 4))
        ELSE IF StartsWith(s, <<"t", "r", "u", "e">>) THEN Parsed(PBool(TRUE), Drop(s, 4))
        ELSE IF StartsWith(s, <<"f", "a", "l", "s", "e">>) THEN Parsed(PBool(FALSE), Drop(s, 5))
        ELSE IF s[1] = "\"" THEN ParseString(s)
        ELSE IF s[1] = "["
        THEN LET t == Skip(Drop(s, 1))
             IN  IF t # <<>> /\ t[1] = "]" THEN Parsed(PList(<<>>), Drop(t, 1))
                 ELSE ParseItems(t, <<>>)
        ELSE IF s[1] = "{"
        THEN LET t == Skip(Drop(s, 1))
             IN  IF t # <<>> /\ t[1] = "}" THEN Parsed(PDict(<<>>), Drop(t, 1))
                 ELSE ParseMembers(t, <<>>)
        ELSE ParseNumber(s)

\* the items of an array after `[`, acc being those already decoded
ParseItems(s, acc) ==
    LET r == ParseValue(s)
        t == Skip(r.rest)
    IN  IF ~r.ok THEN Failed
        ELSE IF t = <<>> THEN Failed
        ELSE IF t[1] = "," THEN ParseItems(Drop(t, 1), Append(acc, r.v))
        ELSE IF t[1] = "]" THEN Parsed(PList(Append(acc, r.v)), Drop(t, 1))
        ELSE Failed

\* the members of an object after `{`: a repeated key keeps its last value
ParseMembers(s, acc) ==
    LET k == ParseString(Skip(s))
        colon == Skip(k.rest)
        r == ParseValue(Drop(colon, 1))
        t == Skip(r.rest)
    IN  IF Skip(s) = <<>> \/ Skip(s)[1] # "\"" THEN Failed
        ELSE IF ~k.ok THEN Failed
        ELSE IF colon = <<>> \/ colon[1] # ":" THEN Failed
        ELSE IF ~r.ok THEN Failed
        ELSE IF t = <<>> THEN Failed
        ELSE IF t[1] = "," THEN ParseMembers(Drop(t, 1), DictSet(acc, k.v.str, r.v))
        ELSE IF t[1] = "}" THEN Parsed(PDict(DictSet(acc, k.v.str, r.v)), Drop(t, 1))
        ELSE Failed

\* json.loads(text): the value, or JSONDecodeError
json_loads(text) ==
    LET r == ParseValue(text)
    IN  IF r.ok /\ Skip(r.rest) = <<>> THEN Returned(r.v) ELSE Raised

\* `for raw in value`: the items of a list, the keys of a dict, the characters
\* of a str; TypeError for a number, a bool and None
Iterate(value) ==
    IF IsList(value) THEN Returned(value.list)
    ELSE IF IsDict(value)
    THEN Returned([i \in DOMAIN value.dict |-> PStr(value.dict[i].key)])
    ELSE IF IsStr(value) THEN Returned([i \in DOMAIN value.str |-> PStr(<<value.str[i]>>)])
    ELSE Raised

CorpusCore == "corpus_core"
DagsterCongress == "dagster_congress"

\* d.get(key, default)
GetOr(d, key, default) ==
    IF \E i \in DOMAIN d : d[i].key = key THEN DictGet(d, key) ELSE default

TypeKey == <<"t", "y", "p", "e">>
PropertiesKey == <<"p", "r", "o", "p", "e", "r", "t", "i", "e", "s">>
RelationshipsKey == <<"r", "e", "l", "a", "t", "i", "o", "n", "s", "h", "i", "p", "s">>
ConfidenceKey == <<"c", "o", "n", "f", "i", "d", "e", "n", "c", "e">>
SourceSpanKey == <<"s", "o", "u", "r", "c", "e", "_", "s", "p", "a", "n">>

\* ExtractedEntity(...): the model validates its fields and raises
\* ValidationError for a value of the wrong kind or a confidence outside 0..1
ExtractedEntity(entity_type, properties, relationships, confidence, source_span, jsonld_schema, domain) ==
    IF /\ IsStr(entity_type)
       /\ IsDict(properties)
       /\ IsList(relationships)
       /\ \A i \in DOMAIN relationships.list : IsDict(relationships.list[i])
       /\ \/ DOMAIN confidence = {"float"} /\ confidence.float \in 0..10
          \/ IsInt(confidence) /\ confidence.int \in 0..1
       /\ IsStr(source_span)
    THEN Returned([entity_type |-> entity_type.str, properties |-> properties.dict,
                   relationships |-> relationships.list, confidence |-> confidence,
                   source_span |-> source_span.str, jsonld_schema |-> jsonld_schema,
                   domain |-> domain])
    ELSE Raised

\* the "mcp:tools" list built from the tools of a type
ToolList(tools) ==
    [t \in DOMAIN tools |->
        [name |-> tools[t].name, description |-> tools[t].description,
         cypher |-> tools[t].cypher_template, parameters |-> tools[t].parameters]]

\* next((t for t in types if t.name == entity_type), None)
FirstNamed(types, entity_type) ==
    LET hits == {i \in DOMAIN types : IsStr(entity_type) /\ types[i].name = entity_type.str}
    IN  IF hits = {} THEN NoneV ELSE types[Min(hits)]

\* _annotate_entity of scratch/dagster-congress, after `if not entity_type`:
\* an unknown type gives None
annotate_node_type(x, raw, entity_type) ==
    LET node_type == FirstNamed(x.types, entity_type)
    IN  IF node_type = NoneV THEN Returned(NoneV)
        ELSE ExtractedEntity(entity_type,
                             GetOr(raw.dict, PropertiesKey, PDict(<<>>)),
                             GetOr(raw.dict, RelationshipsKey, PList(<<>>)),
                             GetOr(raw.dict, ConfidenceKey, PFloat(5)),
                             GetOr(raw.dict, SourceSpanKey, PStr(<<>>)),
                             [type |-> IF Truthy(node_type.schema_org_type)
                                       THEN node_type.schema_org_type ELSE PStr(Thing),
                              entityType |-> PStr(node_type.name),
                              domain |-> node_type.domain,
                              tools |-> ToolList(node_type.mcp_tools)],
                             node_type.domain)

\* _annotate_entity of corpus_core, after `if not entity_type`: a type without
\* definition is annotated "Thing", and "mcp:tools" is set only for a
\* definition that has the key mcp_tools
annotate_type_def(x, raw, entity_type) ==
    LET type_def == FirstNamed(x.types, entity_type)
        head == [type |-> IF type_def # NoneV /\ "schema_org_type" \in DOMAIN type_def
                          THEN type_def.schema_org_type ELSE PStr(Thing),
                 entityType |-> entity_type, domain |-> x.domain]
    IN  ExtractedEntity(entity_type,
                        GetOr(raw.dict, PropertiesKey, PDict(<<>>)),
                        GetOr(raw.dict, RelationshipsKey, PList(<<>>)),
                        GetOr(raw.dict, ConfidenceKey, PFloat(5)),
                        GetOr(raw.dict, SourceSpanKey, PStr(<<>>)),
                        IF type_def # NoneV /\ "mcp_tools" \in DOMAIN type_def
                        THEN [type |-> head.type, entityType |-> head.entityType,
                              domain |-> head.domain, tools |-> ToolList(type_def.mcp_tools)]
                        ELSE head,
                        x.domain)

\* self._annotate_entity(raw): the entity, None, or the exception raised.
\* raw.get is AttributeError for a raw that is no dict
_annotate_entity(x, raw) ==
    IF ~IsDict(raw) THEN Raised
    ELSE LET entity_type == DictGet(raw.dict, TypeKey)
         IN  IF ~Truthy(entity_type) THEN Returned(NoneV)
             ELSE IF x.cls = DagsterCongress THEN annotate_node_type(x, raw, entity_type)
             ELSE annotate_type_def(x, raw, entity_type)

\* the loop `for raw in raw_entities` over the items not yet visited
RECURSIVE Annotated(_, _, _)
Annotated(x, raws, entities) ==
    IF raws = <<>> THEN Returned(entities)
    ELSE LET entity == _annotate_entity(x, Head(raws))
         IN  IF entity = Raised THEN Raised
             ELSE IF entity.v # NoneV THEN Annotated(x, Tail(raws), Append(entities, entity.v))
             ELSE Annotated(x, Tail(raws), entities)

\* extract_from_text from `try: raw_entities = json.loads(...)` on; result is
\* the dict the completion service answered with
extract_from_text(x, result) ==
    LET loaded == json_loads(GetOr(result, "response", <<"[", "]">>))
        raws == Iterate(loaded.v)
    IN  IF loaded = Raised THEN Returned(<<>>)
        ELSE IF raws = Raised THEN Raised
        ELSE Annotated(x, raws.v, <<>>)

\* the completion texts of the model's universe
Completions ==
    {
      \* not JSON
      <<"n", "o", "t", " ", "j", "s", "o", "n">>,
      \* JSON cut short
      <<"[", "{", "\"", "t", "y", "p", "e", "\"", ":", "\"", "B", "i", "l", "l", "\"", "}">>,
      \* the empty array
      <<"[", "]">>,
      \* the empty object
      <<"{", "}">>,
      \* one entity object, not in an array
      <<"{", "\"", "t", "y", "p", "e", "\"", ":", "\"", "B", "i", "l", "l", "\"", "}">>,
      \* the empty string
      <<"\"", "\"">>,
      \* a string
      <<"\"", "B", "i", "l", "l", "\"">>,
      \* a number
      <<"5">>,
      \* null
      <<"n", "u", "l", "l">>,
      \* a boolean
      <<"t", "r", "u", "e">>,
      \* an array of numbers
      <<"[", "1", "]">>,
      \* an array of strings
      <<"[", "\"", "B", "i", "l", "l", "\"", "]">>,
      \* an array of arrays
      <<"[", "[", "]", "]">>,
      \* an entity object, then a number
      <<"[", "{", "\"", "t", "y", "p", "e", "\"", ":", "\"", "B", "i", "l", "l", "\"", "}", ",", "5", "]">>,
      \* one entity of a known type
      <<"[", "{", "\"", "t", "y", "p", "e", "\"", ":", "\"", "B", "i", "l", "l", "\"", "}", "]">>,
      \* an unknown type, then a known one
      <<"[", "{", "\"", "t", "y", "p", "e", "\"", ":", "\"", "G", "h", "o", "s", "t", "\"", "}", ",", "{", "\"", "t", "y", "p", "e", "\"", ":", "\"", "B", "i", "l", "l", "\"", "}", "]">>,
      \* a known type, then an item with no type
      <<"[", "{", "\"", "t", "y", "p", "e", "\"", ":", "\"", "M", "e", "m", "b", "e", "r", "\"", "}", ",", "{", "\"", "p", "r", "o", "p", "e", "r", "t", "i", "e", "s", "\"", ":", "{", "}", "}", "]">>,
      \* an empty type, then a known one
      <<"[", "{", "\"", "t", "y", "p", "e", "\"", ":", "\"", "\"", "}", ",", " ", "{", "\"", "t", "y", "p", "e", "\"", ":", "\"", "M", "e", "m", "b", "e", "r", "\"", "}", "]">>,
      \* a confidence outside 0..1
      <<"[", "{", "\"", "t", "y", "p", "e", "\"", ":", "\"", "B", "i", "l", "l", "\"", ",", "\"", "c", "o", "n", "f", "i", "d", "e", "n", "c", "e", "\"", ":", "2", "}", "]">>,
      \* properties and a confidence
      <<"[", "{", "\"", "t", "y", "p", "e", "\"", ":", "\"", "B", "i", "l", "l", "\"", ",", "\"", "p", "r", "o", "p", "e", "r", "t", "i", "e", "s", "\"", ":", "{", "\"", "n", "a", "m", "e", "\"", ":", "\"", "a", "\"", "}", ",", "\"", "c", "o", "n", "f", "i", "d", "e", "n", "c", "e", "\"", ":", "0", ".", "9", "}", "]">>
    }

\* what the completion service does when called: it fails, or it answers with
\* a result dict, whose "response" is the completion text
Answers ==
    {[answered |-> FALSE]}
    \cup {[answered |-> TRUE, result |-> <<>>]}
    \cup {[answered |-> TRUE, result |-> <<[key |-> "response", value |-> text]>>] :
             text \in Completions}

\* the default entity_types of the corpus_core extractor
DefaultEntityTypes ==
    <<[name |-> <<"P", "E", "R", "S", "O", "N">>, description |-> "A person's name"],
      [name |-> <<"O", "R", "G", "A", "N", "I", "Z", "A", "T", "I", "O", "N">>,
       description |-> "An organization or company"],
      [name |-> <<"L", "O", "C", "A", "T", "I", "O", "N">>, description |-> "A geographic location"],
      [name |-> <<"D", "A", "T", "E">>, description |-> "A date or time reference"],
      [name |-> <<"M", "O", "N", "E", "Y">>, description |-> "A monetary value"]>>

FindTool == MCPTool("find", "", "MATCH (n) RETURN n", <<>>)

\* BaseEntityExtractor(...): the extractors constructed
Extractors ==
    {[cls |-> DagsterCongress, domain |-> Generic, types |-> ts] :
        ts \in {<<NodeType(Bill, <<>>, ""),
                  [NodeType(Member, <<>>, "") EXCEPT !.schema_org_type = PStr(Person),
                                                     !.mcp_tools = <<FindTool>>]>>,
                <<[NodeType(Member, <<>>, "") EXCEPT !.mcp_tools = <<FindTool>>]>>}}
    \cup
    {[cls |-> CorpusCore, domain |-> Generic, types |-> ts] :
        ts \in {DefaultEntityTypes,
                <<[name |-> Bill, description |-> ""],
                  [name |-> Member, description |-> "", schema_org_type |-> PStr(Person),
                   mcp_tools |-> <<FindTool>>]>>}}

InitExtract ==
    /\ LoaderIdle
    /\ NoSchema
    /\ extractor \in Extractors
    /\ response \in Answers
    /\ extracted = NoRet
    /\ NoTrace

\* extractor.extract_from_text(text): response.raise_for_status() raises when
\* the service failed
ExtractFromText ==
    /\ extracted = NoRet
    /\ extracted' = IF response.answered
                    THEN extract_from_text(extractor, response.result)
                    ELSE Raised
    /\ UNCHANGED <<loaderVars, genIn, genOut, raceVars, schemaVars, extractor, response, trace>>

NextExtract == ExtractFromText

SpecExtract == InitExtract /\ [][NextExtract]_vars

-----------------------------------------------------------------------------
(* Claims about the entity extractor, checked under SpecExtract *)

\* the completion text the service answered with
CompletionText == GetOr(response.result, "response", <<"[", "]">>)

\* the text is a JSON array of objects
IsEntityArray(text) ==
    LET loaded == json_loads(text)
    IN  /\ loaded.kind = "return"
        /\ IsList(loaded.v)
        /\ \A i \in DOMAIN loaded.v.list : IsDict(loaded.v.list[i])

\* C21: when the completion text is not a JSON array of entity objects (not
\* JSON, or JSON of another shape: an object, a string, a number, an array of
\* non-objects), extract returns the empty sequence and does not raise.
C21_MalformedGivesEmpty ==
    (extracted # NoRet /\ response.answered /\ ~IsEntityArray(CompletionText))
        => extracted = Returned(<<>>)

\* the names of the types the extractor was constructed with
Resolvable(x) == {x.types[i].name : i \in DOMAIN x.types}

\* the query-tool list of the type named `name`
ToolsOf(x, name) ==
    LET def == x.types[Min({i \in DOMAIN x.types : x.types[i].name = name})]
    IN  IF "mcp_tools" \in DOMAIN def THEN ToolList(def.mcp_tools) ELSE <<>>

\* the types named by the items of the array, those that resolve, in order
ResolvedTypes(x, text) ==
    LET items == json_loads(text).v.list
        named == SelectSeq(items, LAMBDA raw :
                     /\ IsStr(DictGet(raw.dict, TypeKey))
                     /\ DictGet(raw.dict, TypeKey).str \in Resolvable(x))
    IN  [i \in DOMAIN named |-> DictGet(named[i].dict, TypeKey).str]

\* every item of the array has fields an ExtractedEntity accepts
WellFormedItems(text) ==
    LET items == json_loads(text).v.list
    IN  \A i \in DOMAIN items :
            ExtractedEntity(PStr(Bill),
                            GetOr(items[i].dict, PropertiesKey, PDict(<<>>)),
                            GetOr(items[i].dict, RelationshipsKey, PList(<<>>)),
                            GetOr(items[i].dict, ConfidenceKey, PFloat(5)),
                            GetOr(items[i].dict, SourceSpanKey, PStr(<<>>)),
                            <<>>, Generic) # Raised

\* C22: every entity extract returns has an entity_type that resolves to a
\* type of the metamodel the extractor was given and carries that type's
\* query-tool list as its annotation; an item that names an unresolvable
\* type, or none, is dropped without raising and without affecting the other
\* items: from an array of entity objects the entities returned are those of
\* the resolvable items, in order.
C22_ReturnedEntitiesResolve ==
    /\ extracted.kind = "return" =>
          \A i \in DOMAIN extracted.v :
              /\ extracted.v[i].entity_type \in Resolvable(extractor)
              /\ (IF "tools" \in DOMAIN extracted.v[i].jsonld_schema
                  THEN extracted.v[i].jsonld_schema.tools ELSE <<>>)
                    = ToolsOf(extractor, extracted.v[i].entity_type)
    /\ (/\ extracted # NoRet /\ response.answered
        /\ IsEntityArray(CompletionText) /\ WellFormedItems(CompletionText))
       => /\ extracted.kind = "return"
          /\ [i \in DOMAIN extracted.v |-> extracted.v[i].entity_type]
                = ResolvedTypes(extractor, CompletionText)

-----------------------------------------------------------------------------
(* Claims about the generators, checked under SpecSchema *)

CreateVerbs == {"CREATE CONSTRAINT", "CREATE INDEX", "CREATE FULLTEXT INDEX",
                "CREATE VECTOR INDEX"}

\* the places of the CREATE statements in a generated text
Creates(lines) == {i \in DOMAIN lines : lines[i].verb \in CreateVerbs}

\* the places of the statements of suffix `kind` generated for a property
StatementsOf(lines, pattern, type_name, prop_name, kind) ==
    {i \in Creates(lines) :
        /\ lines[i].pattern = pattern /\ lines[i].type = type_name
        /\ lines[i].prop = prop_name /\ lines[i].kind = kind}

\* where a statement stands in the order of declaration: the place of its
\* type in the registry and of its property in the type
PlaceOf(defs, stmt) ==
    LET t == CHOOSE i \in DOMAIN defs : defs[i].name = stmt.type
        k == CHOOSE i \in DOMAIN defs[t].properties : defs[t].properties[i].name = stmt.prop
    IN  <<t, k>>

Before(a, b) == a[1] < b[1] \/ (a[1] = b[1] /\ a[2] <= b[2])

\* the statements of `verbs` and `pattern` follow the order of `defs`
InOrder(lines, verbs, pattern, defs) ==
    \A i, j \in Creates(lines) :
        (/\ i < j
         /\ lines[i].verb \in verbs /\ lines[j].verb \in verbs
         /\ lines[i].pattern = pattern /\ lines[j].pattern = pattern)
        => Before(PlaceOf(defs, lines[i]), PlaceOf(defs, lines[j]))

\* the type names of the comment lines of a section, in the order of the text
Commented(lines, section) ==
    LET found == SelectSeq(lines, LAMBDA l : l.verb = "comment" /\ l.section = section)
    IN  [i \in DOMAIN found |-> found[i].type]

TypeNames == [t \in DOMAIN get_all_node_types(ontology) |-> get_all_node_types(ontology)[t].name]

\* C14: two runs of generate_neo4j_schema on the same ontology return the
\* same text; in it node types stand in the registry's order, in the
\* constraint section and in the index section, properties in the order of
\* declaration, and relationship types in the registry's order.
C14_SchemaDeterministicOrdered ==
    /\ \A i, j \in DOMAIN out.neo4j : out.neo4j[i] = out.neo4j[j]
    /\ \A i \in DOMAIN out.neo4j :
         LET lines == out.neo4j[i].v
         IN  /\ Commented(lines, "constraints") = TypeNames
             /\ Commented(lines, "indexes") = TypeNames
             /\ InOrder(lines, {"CREATE CONSTRAINT"}, "node", get_all_node_types(ontology))
             /\ InOrder(lines, CreateVerbs \ {"CREATE CONSTRAINT"}, "node",
                        get_all_node_types(ontology))
             /\ InOrder(lines, CreateVerbs, "relationship",
                        get_all_relationship_types(ontology))
             /\ lines[3] = [verb |-> "header", domain |-> ontology.domain,
                            version |-> ontology.version]

\* two runs on an ontology of two node types and two relationship types
C14_Witness ==
    /\ Len(out.neo4j) = 2
    /\ Len(get_all_node_types(ontology)) = 2
    /\ Len(get_all_relationship_types(ontology)) = 2
    /\ Cardinality(Creates(out.neo4j[2].v)) >= 5

\* C15: for every node-type property marked unique, the generated schema
\* holds exactly one uniqueness constraint for that type and property and no
\* standard (_idx) index for it, whatever its other flags are.
C15_UniqueOneConstraintNoIndex ==
    \A i \in DOMAIN out.neo4j :
        \A t \in DOMAIN get_all_node_types(ontology) :
            LET def == get_all_node_types(ontology)[t]
            IN  \A k \in DOMAIN def.properties :
                    def.properties[k].unique =>
                        /\ Cardinality(StatementsOf(out.neo4j[i].v, "node", def.name,
                                                    def.properties[k].name, Unique)) = 1
                        /\ StatementsOf(out.neo4j[i].v, "node", def.name,
                                        def.properties[k].name, Idx) = {}

\* a schema generated for a property that is both unique and indexed
C15_Witness ==
    /\ out.neo4j # <<>>
    /\ \E t \in DOMAIN get_all_node_types(ontology) :
         \E k \in DOMAIN get_all_node_types(ontology)[t].properties :
            LET prop == get_all_node_types(ontology)[t].properties[k]
            IN  prop.name = TitleName /\ prop.unique /\ prop.indexed /\ prop.fulltext

\* the places of the index-bearing statements generated for a node property
IndexBearing(lines, type_name, prop_name, kinds) ==
    UNION {StatementsOf(lines, "node", type_name, prop_name, kind) : kind \in kinds}

\* the suffix that the precedence unique > indexed > fulltext > vector picks
Picked(prop) ==
    IF prop.unique THEN {Unique}
    ELSE IF prop.indexed THEN {Idx}
    ELSE IF prop.fulltext THEN {Fulltext}
    ELSE IF prop.prop_type = VECTOR THEN {VectorSuffix}
    ELSE {}

\* C16 as stated: for every node property at most one index-bearing
\* statement is generated, the one of the highest of unique > indexed >
\* fulltext > vector that applies to the property.
C16_OneIndexBearingStatement ==
    \A i \in DOMAIN out.neo4j :
        \A t \in DOMAIN get_all_node_types(ontology) :
            LET def == get_all_node_types(ontology)[t]
            IN  \A k \in DOMAIN def.properties :
                    LET made == IndexBearing(out.neo4j[i].v, def.name, def.properties[k].name,
                                             {Unique, Idx, Fulltext, VectorSuffix})
                    IN  /\ Cardinality(made) <= 1
                        /\ {out.neo4j[i].v[m].kind : m \in made} = Picked(def.properties[k])

\* the suffix that the precedence indexed > fulltext > vector picks, where
\* indexed counts only on a property that is not unique
PickedIndex(prop) ==
    IF prop.indexed /\ ~prop.unique THEN {Idx}
    ELSE IF prop.fulltext THEN {Fulltext}
    ELSE IF prop.prop_type = VECTOR THEN {VectorSuffix}
    ELSE {}

\* C16 as amended: for every node property at most one index statement
\* (standard, full-text or vector) is generated, the one of the highest of
\* indexed > fulltext > vector that applies, indexed applying only to a
\* property that is not unique; the uniqueness constraint of a unique
\* property is generated besides it, so a unique property that is fulltext or
\* of vector type gets the constraint and that index.
C16_OneIndexStatement ==
    \A i \in DOMAIN out.neo4j :
        \A t \in DOMAIN get_all_node_types(ontology) :
            LET def == get_all_node_types(ontology)[t]
            IN  \A k \in DOMAIN def.properties :
                    LET made == IndexBearing(out.neo4j[i].v, def.name, def.properties[k].name,
                                             {Idx, Fulltext, VectorSuffix})
                        constraint == IndexBearing(out.neo4j[i].v, def.name,
                                                   def.properties[k].name, {Unique})
                    IN  /\ Cardinality(made) <= 1
                        /\ {out.neo4j[i].v[m].kind : m \in made} = PickedIndex(def.properties[k])
                        /\ Cardinality(constraint) = IF def.properties[k].unique THEN 1 ELSE 0

\* a property that is indexed, fulltext and of vector type got the standard
\* index alone
C16_Witness ==
    /\ out.neo4j # <<>>
    /\ \E t \in DOMAIN get_all_node_types(ontology) :
         LET def == get_all_node_types(ontology)[t]
         IN  \E k \in DOMAIN def.properties :
                /\ def.properties[k].indexed /\ ~def.properties[k].unique
                /\ def.properties[k].fulltext /\ def.properties[k].prop_type = VECTOR
                /\ Cardinality(IndexBearing(out.neo4j[1].v, def.name, def.properties[k].name,
                                            {Idx, Fulltext, VectorSuffix})) = 1

\* the statement of `verb` and suffix `kind` that the rule of C17 names
Named(verb, kind, pattern, type_name, prop_name) ==
    [verb |-> verb, kind |-> kind, pattern |-> pattern, type |-> type_name, prop |-> prop_name,
     name |-> Lower(type_name) \o <<"_">> \o prop_name \o <<"_">> \o kind,
     dimensions |-> IF verb = "CREATE VECTOR INDEX" THEN 384 ELSE 0,
     similarity |-> IF verb = "CREATE VECTOR INDEX" THEN "cosine" ELSE ""]

\* the statements the rule of C17 gives one node property
DueToProperty(type_name, prop) ==
    (IF prop.unique THEN {Named("CREATE CONSTRAINT", Unique, "node", type_name, prop.name)}
     ELSE IF prop.required
     THEN {Named("CREATE CONSTRAINT", Exists, "node", type_name, prop.name)}
     ELSE {})
    \cup
    (IF prop.indexed /\ ~prop.unique
     THEN {Named("CREATE INDEX", Idx, "node", type_name, prop.name)}
     ELSE IF prop.fulltext
     THEN {Named("CREATE FULLTEXT INDEX", Fulltext, "node", type_name, prop.name)}
     ELSE IF prop.prop_type = VECTOR
     THEN {Named("CREATE VECTOR INDEX", VectorSuffix, "node", type_name, prop.name)}
     ELSE {})

\* the statements the rule of C17 gives the whole ontology
Due ==
    LET types == get_all_node_types(ontology)
        rels == get_all_relationship_types(ontology)
    IN  UNION {UNION {DueToProperty(types[t].name, types[t].properties[k]) :
                        k \in DOMAIN types[t].properties} : t \in DOMAIN types}
        \cup
        UNION {{Named("CREATE INDEX", Idx, "relationship", rels[r].name,
                      rels[r].properties[k].name) :
                   k \in {x \in DOMAIN rels[r].properties : rels[r].properties[x].indexed}} :
                 r \in DOMAIN rels}

\* C17: the CREATE statements of the generated schema are exactly those of
\* the rule: per node property a uniqueness constraint if unique, otherwise a
\* not-null constraint if required; and a standard index if indexed and not
\* unique, otherwise a full-text index if fulltext, otherwise a 384-dimension
\* cosine vector index if the type is vector; per relationship property one
\* index if indexed and nothing otherwise; each once, each named
\* {lowercased type name}_{property name}_{kind}.
C17_StatementsExactlyByRule ==
    \A i \in DOMAIN out.neo4j :
        LET lines == out.neo4j[i].v
        IN  /\ {lines[m] : m \in Creates(lines)} = Due
            /\ Cardinality(Creates(lines)) = Cardinality(Due)

\* a schema generated for a property that is required, not unique, fulltext
\* and of vector type, next to relationship properties indexed and not
C17_Witness ==
    /\ out.neo4j # <<>>
    /\ Len(get_all_relationship_types(ontology)) = 2
    /\ \E t \in DOMAIN get_all_node_types(ontology) :
         LET def == get_all_node_types(ontology)[t]
         IN  \E k \in DOMAIN def.properties :
                /\ def.properties[k].required /\ ~def.properties[k].unique
                /\ def.properties[k].fulltext /\ ~def.properties[k].indexed
                /\ def.properties[k].prop_type = VECTOR
                /\ Cardinality(IndexBearing(out.neo4j[1].v, def.name, def.properties[k].name,
                                            {Exists, Fulltext})) = 2

\* every run of every generator so far has returned
AllReturned ==
    /\ \A i \in DOMAIN out.neo4j : out.neo4j[i].kind = "return"
    /\ \A i \in DOMAIN out.proto : out.proto[i].kind = "return"
    /\ \A i \in DOMAIN out.jsonld : out.jsonld[i].kind = "return"

\* the properties of the ontology whose type is no member of PropertyType
UntypedProperties ==
    LET types == get_all_node_types(ontology)
    IN  UNION {{<<types[t].name, types[t].properties[k].name>> :
                  k \in {x \in DOMAIN types[t].properties :
                            types[t].properties[x].prop_type \notin PropertyType}} :
               t \in DOMAIN types}

\* C18: each generator returns its artifact, raising nothing, on every
\* ontology built by registration: empty, with a type without properties,
\* with relationships between unregistered types, with a property whose type
\* is no PropertyType; such a property is typed string in the interface
\* description and xsd:string in the linked-data context.
C18_GeneratorsTotal ==
    /\ AllReturned
    /\ \A i \in DOMAIN out.proto : \A m \in DOMAIN out.proto[i].v :
         LET line == out.proto[i].v[m]
         IN  (line.verb = "field" /\ \E u \in UntypedProperties : u[2] = line.name)
             => line.type = "string"
    /\ \A i \in DOMAIN out.jsonld : \A g \in DOMAIN out.jsonld[i].v.graph :
         LET entry == out.jsonld[i].v.graph[g]
         IN  \A x \in DOMAIN entry.properties :
                (\E u \in UntypedProperties : u[2] = entry.properties[x].key)
                => entry.properties[x].value.type = "xsd:string"

\* the three generators have run on an ontology with a property of unknown
\* type and a relationship to an unregistered node type
C18_Witness ==
    /\ out.neo4j # <<>> /\ out.proto # <<>> /\ out.jsonld # <<>>
    /\ UntypedProperties # {}
    /\ \E r \in DOMAIN get_all_relationship_types(ontology) :
         get_node_type(ontology, get_all_relationship_types(ontology)[r].to_node) = NoneV

\* the wire type of each PropertyType
WireType(prop_type) ==
    IF prop_type = INTEGER THEN "int64"
    ELSE IF prop_type = FLOAT THEN "double"
    ELSE IF prop_type = BOOLEAN_T THEN "bool"
    ELSE IF prop_type = VECTOR THEN "repeated float"
    ELSE "string"

\* the lines of one message: its opening, its fields numbered from 1, its end
MessageOf(def) ==
    <<[verb |-> "message", name |-> def.name]>>
    \o [k \in DOMAIN def.properties |->
          [verb |-> "field", type |-> WireType(def.properties[k].prop_type),
           name |-> def.properties[k].name, number |-> k]]
    \o <<Line("}"), Line("")>>

\* C19: after its fixed part the interface description holds one message per
\* node type, in get_all_node_types order, whose fields are the type's
\* properties in declaration order, numbered 1, 2, 3, ... and typed by the
\* PropertyType-to-wire-type table.
C19_OneMessagePerTypeNumbered ==
    \A i \in DOMAIN out.proto :
        LET lines == out.proto[i].v
            types == get_all_node_types(ontology)
        IN  SubSeq(lines, Len(Prelude(ontology)) + 1, Len(lines))
                = Concat([t \in DOMAIN types |-> MessageOf(types[t])])

\* an interface description of two node types, one with six properties
C19_Witness ==
    /\ out.proto # <<>>
    /\ Len(get_all_node_types(ontology)) = 2
    /\ \E m \in DOMAIN out.proto[1].v :
         out.proto[1].v[m].verb = "field" /\ out.proto[1].v[m].number = 6

\* the names of a property list that are not in `block`, in declaration order
Outside(properties, block) ==
    LET kept == SelectSeq(properties, LAMBDA q : q.name \notin block)
    IN  [k \in DOMAIN kept |-> kept[k].name]

\* the names of the shared block COMMON_PROPS
CommonNames == {COMMON_PROPS[k].name : k \in DOMAIN COMMON_PROPS}

\* the @graph of a context is one entry per node type, in order, keyed
\* kg:{name}, whose property table is keyed by the declared names outside `block`
GraphLeavesOut(doc, block) ==
    LET types == get_all_node_types(ontology)
    IN  /\ Len(doc.graph) = Len(types)
        /\ \A g \in DOMAIN doc.graph :
             /\ doc.graph[g].id = <<"k", "g", ":">> \o types[g].name
             /\ DictKeys(doc.graph[g].properties) = Outside(types[g].properties, block)

\* C20 as stated: the @graph has one entry per node type, in order, keyed
\* kg:{type name}, and the entry's property table holds the declared
\* properties except those of the shared block COMMON_PROPS.
C20_GraphLeavesOutCommonBlock ==
    \A i \in DOMAIN out.jsonld : GraphLeavesOut(out.jsonld[i].v, CommonNames)

\* C20 as amended: the @graph has one entry per node type, in order, keyed
\* kg:{type name}, and the entry's property table holds the declared
\* properties except those named id, embedding, created_at and updated_at;
\* source_url, the fifth property of the shared block, is in the table.
C20_GraphLeavesOutFourNames ==
    \A i \in DOMAIN out.jsonld :
        GraphLeavesOut(out.jsonld[i].v, {IdName, EmbeddingName, CreatedAtName, UpdatedAtName})

\* a context for a type that declares the shared block and one more property
C20_Witness ==
    /\ out.jsonld # <<>>
    /\ \E g \in DOMAIN out.jsonld[1].v.graph :
         /\ Len(get_all_node_types(ontology)[g].properties) = 6
         /\ DictKeys(out.jsonld[1].v.graph[g].properties) = <<SourceUrlName, TitleName>>

\* the query semantic_search issues when called with its defaults
DefaultSearch ==
    semantic_search(Neo4jLoader, TRUE, <<>>, 10, NoneV, EntityEmbeddingVector,
                    Returned(Vec(<<1>>)), TRUE, {}).log[1]

\* the names of the vector indexes of a generated schema
VectorIndexNames(lines) ==
    {lines[m].name : m \in {c \in Creates(lines) : lines[c].verb = "CREATE VECTOR INDEX"}}

\* C27: the vector index that semantic_search queries by default is one of
\* the vector indexes the schema generator emits for the ontology, each of
\* which it names {lowercased type name}_{property name}_vector.
C27_DefaultIndexGenerated ==
    \A i \in DOMAIN out.neo4j :
        VectorIndexNames(out.neo4j[i].v) # {}
            => DefaultSearch.index_name \in VectorIndexNames(out.neo4j[i].v)

\* the names of the node types, and of the relationship types, are unique,
\* and so are the property names within each type
UniqueNames(o) ==
    LET types == get_all_node_types(o)
        rels == get_all_relationship_types(o)
        Distinct(seq) == \A a, b \in DOMAIN seq : a # b => seq[a].name # seq[b].name
    IN  /\ Distinct(types) /\ Distinct(rels)
        /\ \A t \in DOMAIN types : Distinct(types[t].properties)
        /\ \A r \in DOMAIN rels : Distinct(rels[r].properties)

\* C30: for an ontology whose node-type and relationship-type names are
\* unique and whose property names are unique within each type, the names of
\* the constraints and indexes of the generated schema are pairwise distinct.
C30_StatementNamesDistinct ==
    UniqueNames(ontology) =>
        \A i \in DOMAIN out.neo4j :
            LET lines == out.neo4j[i].v
            IN  \A m, n \in Creates(lines) : m # n => lines[m].name # lines[n].name

-----------------------------------------------------------------------------
(* Claims about the Ontology registry, checked under SpecRegistry *)

\* the names given to the registrations `op`, in the order of the calls
Registered(op) ==
    LET made == SelectSeq(calls, LAMBDA c : c.op = op)
    IN  [i \in DOMAIN made |-> made[i].name]

\* a sequence without its repetitions: each element where it first occurs
RECURSIVE FirstOccurrences(_)
FirstOccurrences(seq) ==
    IF seq = <<>> THEN <<>>
    ELSE LET front == FirstOccurrences(SubSeq(seq, 1, Len(seq) - 1))
         IN  IF Last(seq) \in ToSet(front) THEN front ELSE Append(front, Last(seq))

\* the definition given by the most recent registration `op` of `name`
LatestGiven(op, name) ==
    LET made == {i \in DOMAIN calls : calls[i].op = op /\ calls[i].name = name}
    IN  calls[Max(made)].given

\* what get_all_... must list after the registrations `op`
Expected(op) ==
    LET names == FirstOccurrences(Registered(op))
    IN  [i \in DOMAIN names |-> LatestGiven(op, names[i])]

\* C12: after any sequence of registrations, get_all_node_types and
\* get_all_relationship_types list each registered name once, in the order of
\* first registration, each with the definition of its most recent
\* registration; get_node_type gives that definition, or None for a name
\* that was never registered.
C12_RegistryOrderedLastWins ==
    /\ get_all_node_types(ontology) = Expected("register_node_type")
    /\ get_all_relationship_types(ontology) = Expected("register_relationship_type")
    /\ \A name \in {Bill, Member, Ghost} :
         get_node_type(ontology, name) =
            IF name \in ToSet(Registered("register_node_type"))
            THEN LatestGiven("register_node_type", name) ELSE NoneV

\* a name registered, another registered after it, then the first again with
\* another definition: it keeps the first place and has the later definition
C12_Witness ==
    /\ Len(calls) >= 3
    /\ calls[1].op = "register_node_type" /\ calls[2].op = "register_node_type"
    /\ calls[3].op = "register_node_type"
    /\ calls[1].name = calls[3].name /\ calls[1].name # calls[2].name
    /\ calls[1].given # calls[3].given
    /\ Len(get_all_node_types(ontology)) = 2
    /\ get_all_node_types(ontology)[1] = calls[3].given

\* C13: a registration under a name that an earlier registration of the same
\* kind already used raises a definition error to its caller.
C13_DuplicateRaises ==
    \A i \in DOMAIN calls :
        (\E j \in 1..(i - 1) : calls[j].op = calls[i].op /\ calls[j].name = calls[i].name)
        => calls[i].ret = Raised

-----------------------------------------------------------------------------
(* Claims about two loaders on one store, checked under SpecRace *)

\* both loaders have written: each store call was applied
BothWrote == writers # <<>> /\ \A w \in {1, 2} : writers[w].call # NoArg /\ writers[w].call.ok

\* the two loads name the same labels and the same given or derived id
SameTarget ==
    /\ writers[1].call.labels = writers[2].call.labels
    /\ writers[1].call.id = writers[2].call.id

\* the store held no node for those labels and that id before the two loads
FreshTarget == MatchRows(Rows(nodes), writers[1].call.labels, writers[1].call.id) = {}

-----------------------------------------------------------------------------
(* Claims about identity derivation, checked under SpecId *)

\* the value of the first field of the priority list that the entity has
HasNaturalKey(v, e) ==
    \E i \in DOMAIN PriorityFields(v) : PriorityFields(v)[i] \in DOMAIN e.properties

NaturalKey(v, e) ==
    LET fields == PriorityFields(v)
        present == {i \in DOMAIN fields : fields[i] \in DOMAIN e.properties}
    IN  IF present = {} THEN NoneV ELSE e.properties[fields[Min(present)]]

Derived == genOut # NoGen

\* C5: the derived identity depends on entity_type and on the value of the
\* first priority-list field present and on nothing else: two entities that
\* agree on both get the same identity whatever their other properties, and
\* every identity has the same length, the 16 digits kept of the digest.
C5_IdentityFromTypeAndNaturalKey ==
    Derived =>
        /\ Len(genOut[1]) = IdLen /\ Len(genOut[2]) = IdLen
        /\ (/\ genIn[1].entity_type = genIn[2].entity_type
            /\ NaturalKey(variant, genIn[1]) = NaturalKey(variant, genIn[2]))
           => genOut[1] = genOut[2]

C5_Witness ==
    /\ Derived
    /\ genIn[1].entity_type = genIn[2].entity_type
    /\ HasNaturalKey(variant, genIn[1])
    /\ NaturalKey(variant, genIn[1]) = NaturalKey(variant, genIn[2])
    /\ genIn[1].properties # genIn[2].properties
    /\ genOut[1] = genOut[2]

\* C6 as stated: two entities of the same type whose natural-key values
\* differ get different identities.
C6_DifferentKeyDifferentId ==
    (/\ Derived
     /\ genIn[1].entity_type = genIn[2].entity_type
     /\ HasNaturalKey(variant, genIn[1]) /\ HasNaturalKey(variant, genIn[2])
     /\ NaturalKey(variant, genIn[1]) # NaturalKey(variant, genIn[2]))
    => genOut[1] # genOut[2]

\* C6 as amended: two entities of the same type whose natural-key values
\* have different text forms (str(value)) get different identities; values
\* with the same text form, such as 1 and "1", get the same one.
C6_DifferentKeyTextDifferentId ==
    (/\ Derived
     /\ genIn[1].entity_type = genIn[2].entity_type
     /\ HasNaturalKey(variant, genIn[1]) /\ HasNaturalKey(variant, genIn[2]))
    => (PyStr(NaturalKey(variant, genIn[1])) # PyStr(NaturalKey(variant, genIn[2]))
            <=> genOut[1] # genOut[2])

C6_Witness ==
    /\ Derived
    /\ genIn[1].entity_type = genIn[2].entity_type
    /\ HasNaturalKey(variant, genIn[1]) /\ HasNaturalKey(variant, genIn[2])
    /\ PyStr(NaturalKey(variant, genIn[1])) # PyStr(NaturalKey(variant, genIn[2]))
    /\ genOut[1] # genOut[2]

-----------------------------------------------------------------------------
(* Claims about the loader, checked under Spec *)

\* the entity types of the inputs that the ontology does not define
UnknownTypes == EntityTypes \ DOMAIN OntologyNodes

\* this step is a store call (attempted, whether or not it failed)
StoreCall == hist' # hist /\ hist' # <<>>

\* C1: with a non-empty registry, load_relationship of a kind that is not
\* registered returns False without raising, issues no store call, creates no
\* edge and changes no node; inside load_entity_with_relationships the loop
\* goes on to the next relationship and the node just written stays as it is.
C1_UnknownKindRejected ==
    [][/\ (/\ pc = "idle"
           /\ arg'.op = "load_relationship"
           /\ valid_relationships # {}
           /\ arg'.argument.relationship_type \notin valid_relationships)
          => (/\ ret' = Returned(PBool(FALSE))
              /\ edges' = edges /\ nodes' = nodes /\ hist' = <<>>)
       /\ (/\ pc = "rels"
           /\ frame.i <= Len(frame.entity.relationships)
           /\ Complete(frame.entity.relationships[frame.i])
           /\ valid_relationships # {}
           /\ PyStr(frame.entity.relationships[frame.i].relationship_type)
                  \notin valid_relationships)
          => (/\ edges' = edges /\ nodes' = nodes /\ hist' = hist
              /\ pc' = "rels" /\ frame'.i = frame.i + 1)
      ]_vars

C1_Witness ==
    /\ pc = "rels"
    /\ valid_relationships # {}
    /\ frame.i = 2
    /\ Get(frame.entity.relationships[1], "relationship_type") = PStr(BOGUS)
    /\ Get(frame.entity.relationships[1], "target_id") = frame.entity_id
    /\ MatchNodes(nodes, {frame.entity.entity_type}, frame.entity_id) # {}
    /\ edges = <<>>

\* C2: an entity whose type the ontology does not define is never written:
\* no node carries its type, and the call that was given it does not return
\* an id.
C2_UnknownTypeWritesNothing ==
    /\ \A k \in DOMAIN nodes : k[1] \cap UnknownTypes = {}
    /\ (/\ pc = "done"
        /\ arg.op \in {"load_entity", "load_entity_with_relationships"}
        /\ arg.argument.entity_type \in UnknownTypes
        /\ ret.kind = "return")
       => ret.v = NoneV

\* the node upsert that a finished load_entity call issued, when it succeeded
Upserted == pc = "done" /\ arg.op = "load_entity" /\ hist # <<>> /\ hist[1].ok

\* C3 as stated: after load_entity of an entity that has an id, the store
\* holds exactly one node of that type and id, and its properties are exactly
\* those of this load.
C3_OneNodeWithLatestProperties ==
    (Upserted /\ "id" \in DOMAIN arg.argument.properties) =>
        LET same == {k \in DOMAIN nodes :
                        arg.argument.entity_type \in k[1] /\ k[2] = hist[1].id}
        IN  /\ Cardinality(same) = 1
            /\ \A k \in same : nodes[k] = hist[1].props

\* C3 as amended: a node upsert that finds a node with its labels and id
\* creates no node; afterwards every node with those labels and id holds, for
\* each property of this load, the value of this load, and keeps the value it
\* had for every property this load does not carry.  An upsert that finds
\* none creates exactly one node, with the labels, id and properties of the load.
C3_MergeOverwrite ==
    [][(StoreCall /\ Last(hist').q = "node" /\ Last(hist').ok) =>
        LET c == Last(hist')
            hit == MatchNodes(nodes, c.labels, c.id)
        IN  /\ MatchNodes(nodes', c.labels, c.id) # {}
            /\ \A k \in MatchNodes(nodes', c.labels, c.id) :
                 \A x \in DOMAIN c.props : nodes'[k][x] = c.props[x]
            /\ hit # {} =>
                 /\ DOMAIN nodes' = DOMAIN nodes
                 /\ \A k \in hit : \A x \in DOMAIN nodes[k] \ DOMAIN c.props :
                        x \in DOMAIN nodes'[k] /\ nodes'[k][x] = nodes[k][x]
            /\ hit = {} =>
                 /\ DOMAIN nodes' = DOMAIN nodes \cup {<<c.labels, c.id>>}
                 /\ nodes'[<<c.labels, c.id>>] = c.props
            /\ \A k \in DOMAIN nodes \ hit : nodes'[k] = nodes[k]
      ]_vars

\* a second load of the seed entity's id that changed one property and
\* dropped none
C3_Witness ==
    /\ Upserted
    /\ arg.argument.properties = [id |-> PStr(<<"a">>), name |-> PStr(<<"b">>)]
    /\ Cardinality(DOMAIN nodes) = 1
    /\ \A k \in DOMAIN nodes : nodes[k].name = PStr(<<"b">>) /\ nodes[k] = hist[1].props

\* C4: an entity whose properties hold an id is stored under that id.
C4_GivenIdVerbatim ==
    \A i \in DOMAIN hist :
        (/\ hist[i].q = "node" /\ hist[i].ok
         /\ arg.op = "load_entity"
         /\ "id" \in DOMAIN arg.argument.properties)
        => hist[i].id = arg.argument.properties.id

InEntityWrite == arg.op \in {"load_entity_with_relationships", "congress_graph"}

\* C7: in load_entity_with_relationships every relationship write comes after
\* the node upsert of its entity, that upsert succeeded and its node is in the
\* store, and the write's source is the entity's type and the id the upsert
\* returned; after a failed upsert no relationship write follows.
C7_NodeBeforeRelationships ==
    [][(InEntityWrite /\ StoreCall /\ Last(hist').q = "rel") =>
        LET c == Last(hist')
            upserts == {i \in DOMAIN hist : hist[i].q = "node"}
        IN  /\ upserts # {}
            /\ hist[Max(upserts)].ok
            /\ hist[Max(upserts)].id = c.from_id
            /\ c.from_type \in hist[Max(upserts)].labels
            /\ MatchNodes(nodes, {c.from_type}, c.from_id) # {}
      ]_vars

C7_Witness ==
    /\ pc = "rels"
    /\ Len(hist) = 2
    /\ hist[1].q = "node" /\ hist[1].ok
    /\ hist[2].q = "rel" /\ hist[2].from_id = hist[1].id

\* the relationships of e that load_entity_with_relationships passes on to the store
Written(e) ==
    {i \in DOMAIN e.relationships :
        /\ Complete(e.relationships[i])
        /\ ~RelationshipRejected(variant, valid_relationships,
                                 PyStr(e.relationships[i].relationship_type))}

\* C8: once load_entity_with_relationships has written the node, it returns
\* the entity's id and has attempted every relationship of the entity,
\* whatever became of each relationship write, and the node is still stored.
C8_RelationshipFailureIsolated ==
    (/\ pc = "done"
     /\ arg.op = "load_entity_with_relationships"
     /\ hist # <<>> /\ hist[1].q = "node" /\ hist[1].ok)
    => /\ ret = Returned(hist[1].id)
       /\ Len(hist) = 1 + Cardinality(Written(arg.argument))
       /\ MatchNodes(nodes, hist[1].labels, hist[1].id) # {}

\* C9: load_entities, when no external call fails, returns normally; the
\* entities of unknown type are skipped (no store call), every other entity is
\* written, and the result is the ids written: N minus the skipped ones.
C9_UnknownTypeSkipped ==
    (pc = "done" /\ arg.op = "load_entities" /\ faults = 0) =>
        LET known == {i \in DOMAIN arg.argument :
                         arg.argument[i].entity_type \notin UnknownTypes}
        IN  /\ ret.kind = "return"
            /\ Len(ret.v.list) = Cardinality(known)
            /\ Len(hist) = Cardinality(known)
            /\ \A j \in DOMAIN hist :
                 j \in DOMAIN ret.v.list /\ hist[j].id = ret.v.list[j]

\* C10: a batch load ends by returning its result to the caller, also when
\* an embedding call or a store call failed for one of its entities.
C10_CallFailureRecovered ==
    (pc = "done" /\ arg.op \in {"load_entities", "congress_graph"})
        => ret.kind = "return"

\* C23: when the loader has no embedding function, semantic_search returns
\* an empty result, does not raise and issues no query to the graph store.
C23_NoEmbeddingNoSearch ==
    (pc = "done" /\ arg.op = "semantic_search" /\ ~embedding_service)
        => /\ ret = Returned([records |-> {}])
           /\ hist = <<>>

\* semantic_search has returned on a loader without embedding function whose
\* store holds a node
C23_Witness ==
    /\ pc = "done" /\ arg.op = "semantic_search" /\ ~embedding_service
    /\ nodes # <<>>
    /\ ret.kind = "return"

\* C24: every node the loader writes, through load_entity, load_entities or
\* load_entity_with_relationships, carries as labels its entity type and all
\* the additional_labels the metamodel declares for that node type.
C24_LabelsFromMetamodel ==
    \A i \in DOMAIN hist :
        (hist[i].q = "node" /\ hist[i].ok) =>
            \A t \in hist[i].labels \cap DOMAIN OntologyNodes :
                ToSet(OntologyNodes[t]) \subseteq hist[i].labels

\* C26: after a node upsert the stored node's id, domain, confidence and
\* jsonld_schema equal the identity the loader resolved for the entity and
\* the entity's domain, confidence and serialized annotation, also when the
\* entity's property map has keys with those names.
C26_LoaderKeysWin ==
    (pc = "done" /\ arg.op = "load_entity" /\ ret.kind = "return" /\ hist # <<>>)
        => LET entity == arg.argument
               given == Get(entity.properties, "id")
               resolved == IF IsStr(given) /\ given.str # <<>> THEN given
                           ELSE PStr(GenerateId(variant, entity))
           IN  /\ ret.v = resolved
               /\ \E k \in DOMAIN nodes : entity.entity_type \in k[1] /\ k[2] = resolved
               /\ \A k \in DOMAIN nodes :
                     (entity.entity_type \in k[1] /\ k[2] = resolved)
                        => /\ nodes[k].id = resolved
                           /\ nodes[k].domain = PStr(entity.domain)
                           /\ nodes[k].confidence = entity.confidence
                           /\ nodes[k].jsonld_schema = JsonDumps(entity.jsonld_schema)

\* a node was upserted for an entity whose property map has the keys domain,
\* confidence and jsonld_schema
C26_Witness ==
    /\ pc = "done" /\ arg.op = "load_entity" /\ ret.kind = "return" /\ hist # <<>>
    /\ {"domain", "confidence", "jsonld_schema"} \subseteq DOMAIN arg.argument.properties
    /\ \E k \in DOMAIN nodes : nodes[k].id = ret.v /\ nodes[k].confidence = PFloat(5)

\* the store call left an edge: a relationship write that succeeded
EdgeWritten(call) ==
    /\ call.q = "rel" /\ call.ok
    /\ \E e \in DOMAIN edges :
          /\ e[2] = call.rel
          /\ call.from_type \in e[1][1] /\ e[1][2] = call.from_id
          /\ call.to_type \in e[3][1] /\ e[3][2] = call.to_id

\* C29: in the graph-load step the reported relationship count equals the
\* number of relationship writes that succeeded and loaded_count equals the
\* number of entities whose node write succeeded, for every batch and every
\* pattern of failures.
C29_CountsMatchWrites ==
    (pc = "done" /\ arg.op = "congress_graph")
        => /\ ret.v.relationship_count
                = Cardinality({i \in DOMAIN hist : EdgeWritten(hist[i])})
           /\ ret.v.loaded_count
                = Cardinality({i \in DOMAIN hist : hist[i].q = "node" /\ hist[i].ok})

-----------------------------------------------------------------------------
(* Claims about a loader called repeatedly, checked under SpecSequence *)

\* a node with this label and this id is in the store
Stored(nd, label, id) == \E k \in DOMAIN nd : label \in k[1] /\ k[2] = id

\* the edges of one kind from a node (label, id) to a node (label, id)
EdgesBetween(ed, from_type, from_id, rel, to_type, to_id) ==
    {k \in DOMAIN ed : /\ from_type \in k[1][1] /\ k[1][2] = from_id
                       /\ k[2] = rel
                       /\ to_type \in k[3][1] /\ k[3][2] = to_id}

\* every edge connects two nodes of the store
EdgesConnect(nd, ed) == \A k \in DOMAIN ed : k[1] \in DOMAIN nd /\ k[3] \in DOMAIN nd

\* the step is a load_relationship of an accepted kind whose query ran
AcceptedRelationship ==
    /\ pc = "idle" /\ pc' = "done"
    /\ arg'.op = "load_relationship"
    /\ ret'.kind = "return"
    /\ hist' # <<>>

\* C25: after any sequence of loader operations every edge connects two nodes
\* of the store.  load_relationship with an accepted kind creates no node;
\* when an endpoint (label and id) is missing it writes no edge and returns
\* False; when both exist it returns True and leaves exactly one edge of that
\* kind between each pair of matched endpoints, however often it is repeated.
C25_EdgesConnectStoredNodes ==
    [][/\ EdgesConnect(nodes', edges')
       /\ AcceptedRelationship =>
            LET a == arg'.argument
                both == /\ Stored(nodes, a.from_type, a.from_id)
                        /\ Stored(nodes, a.to_type, a.to_id)
                between(ed) == EdgesBetween(ed, a.from_type, a.from_id,
                                            a.relationship_type, a.to_type, a.to_id)
                pairs == {<<x, y>> \in (DOMAIN nodes) \X (DOMAIN nodes) :
                            /\ a.from_type \in x[1] /\ x[2] = a.from_id
                            /\ a.to_type \in y[1] /\ y[2] = a.to_id}
            IN  /\ nodes' = nodes
                /\ ~both => edges' = edges /\ ret'.v = PBool(FALSE)
                /\ both => /\ ret'.v = PBool(TRUE)
                           /\ between(edges') =
                                {<<p[1], a.relationship_type, p[2]>> : p \in pairs}
                           /\ DOMAIN edges' = DOMAIN edges \cup between(edges')]_vars

\* a load_relationship between two stored nodes is repeated, and one edge is
\* in the store
C25_Witness ==
    /\ pc = "done" /\ arg.op = "load_relationship"
    /\ ret = Returned(PBool(TRUE))
    /\ \E i \in DOMAIN trace : trace[i].arg = arg /\ trace[i].ret = ret
    /\ Cardinality(DOMAIN edges) = 1

\* the calls that have finished: those that returned to the application, and
\* the one that has just ended
Finished ==
    trace \o (IF pc = "done" THEN <<[arg |-> arg, ret |-> ret]>> ELSE <<>>)

\* the entity has no id, and no field of the priority list
Unkeyed(v, entity) ==
    /\ ~Truthy(Get(entity.properties, "id"))
    /\ \A f \in ToSet(PriorityFields(v)) : f \notin DOMAIN entity.properties

\* C28: two entities of the same type, with no id and no field of the
\* priority list, whose property maps differ, are stored as two distinct
\* nodes: the second load does not get the id of the first.
C28_UnkeyedEntitiesDistinct ==
    \A i, j \in DOMAIN Finished :
        LET x == Finished[i]
            y == Finished[j]
        IN  (/\ i < j
             /\ x.arg.op = "load_entity" /\ y.arg.op = "load_entity"
             /\ x.ret.kind = "return" /\ y.ret.kind = "return"
             /\ x.ret.v # NoneV /\ y.ret.v # NoneV
             /\ x.arg.argument.entity_type = y.arg.argument.entity_type
             /\ Unkeyed(variant, x.arg.argument) /\ Unkeyed(variant, y.arg.argument)
             /\ x.arg.argument.properties # y.arg.argument.properties)
            => x.ret.v # y.ret.v

=============================================================================
